---- MODULE Spec2Model ----
(***************************************************************************)
(* QuantumShield: the realtime relay (backend/src/server.js), the          *)
(* friendship routes (api/friendRoutes.js), and the envelope codecs of the *)
(* web client (frontend/src/utils/crypto.js) and of the backend            *)
(* (backend/src/crypto/pqc.js).                                            *)
(*                                                                         *)
(* Byte strings (keys, ciphertexts, signatures, all base64 on the wire)    *)
(* are symbolic TLA+ strings built with \o, so that two of them are equal  *)
(* exactly when they were built from the same parts.  Identifiers that a   *)
(* client puts on the wire (userId, senderId, receiverId, friend_id) are   *)
(* sequences of characters, so that parseInt, Number() and the template    *)
(* string `user_${id}` each do to them what JavaScript does.               *)
(***************************************************************************)
EXTENDS Integers, Sequences, FiniteSets, Bags, TLC

(***************************************************************************)
(* Bounds of the model.                                                    *)
(***************************************************************************)
\* socket event handlers (sendMessage, sendFile) suspended at one time
MaxInflight == 1
\* HTTP friend-route handlers suspended at one time
MaxHttp == 2
\* sendMessage handlers of one connection suspended at one time (SpecPipeline)
MaxPipelined == 2
\* minutes that pass in one step of the clock, and the last minute (SpecKeystore)
StepMinutes == 10
MaxClock == 70

(***************************************************************************)
(* The users table (db.js 175-184): three registered users.  Alice is 10   *)
(* and Bob is 11; Mallory is 1.  Rows are immutable after registration.    *)
(***************************************************************************)
Users == {1, 10, 11}

username(u) == CASE u = 1 -> "mallory" [] u = 10 -> "alice" [] u = 11 -> "bob"

falcon_public_key(u) == "fpk." \o username(u)
falcon_secret_key(u) == "fsk." \o username(u)
kyber_public_key(u) == "kpk." \o username(u)
kyber_secret_key(u) == "ksk." \o username(u)

\* bcrypt hash of the account password
password_hash(u) == "bcrypt[pw." \o username(u) \o "]"

\* the rows of the users table, column by column.  The two secret key columns
\* hold the keys as the primitives take them: /kyber/decapsulate passes
\* row.kyber_secret_key to kyberDecapsulate and /falcon/sign passes
\* row.falcon_secret_key to signWithFalcon, neither decrypting the column.
users ==
  [u \in Users |->
     [id |-> u, username |-> username(u),
      kyber_public_key |-> kyber_public_key(u),
      falcon_public_key |-> falcon_public_key(u),
      kyber_secret_key |-> kyber_secret_key(u),
      falcon_secret_key |-> falcon_secret_key(u),
      password_hash |-> password_hash(u)]]

(***************************************************************************)
(* JavaScript coercions of an identifier taken from the wire.              *)
(***************************************************************************)
Digits == {"0", "1", "2", "3", "4", "5", "6", "7", "8", "9"}

DigitVal(ch) ==
  CASE ch = "0" -> 0 [] ch = "1" -> 1 [] ch = "2" -> 2 [] ch = "3" -> 3
    [] ch = "4" -> 4 [] ch = "5" -> 5 [] ch = "6" -> 6 [] ch = "7" -> 7
    [] ch = "8" -> 8 [] ch = "9" -> 9

\* the value no number equals (ids are positive)
NaN == -1

\* length of the longest prefix of w made of decimal digits
RECURSIVE DigitPrefixLen(_)
DigitPrefixLen(w) ==
  IF w = << >> \/ Head(w) \notin Digits THEN 0 ELSE 1 + DigitPrefixLen(Tail(w))

\* value of a sequence of decimal digits
RECURSIVE DecimalValue(_)
DecimalValue(w) ==
  IF w = << >> THEN 0
  ELSE 10 * DecimalValue(SubSeq(w, 1, Len(w) - 1)) + DigitVal(w[Len(w)])

RECURSIVE Pow10(_)
Pow10(n) == IF n = 0 THEN 1 ELSE 10 * Pow10(n - 1)

\* parseInt(w): the leading decimal digits, whatever follows them; NaN if none
parseInt(w) ==
  LET n == DigitPrefixLen(w)
  IN  IF n = 0 THEN NaN ELSE DecimalValue(SubSeq(w, 1, n))

\* Number(w), the coercion Math.min/Math.max and SQLite's numeric affinity
\* apply: the whole text must be a numeric literal (digits, optionally
\* followed by e and digits); otherwise NaN
ToNumber(w) ==
  LET n == DigitPrefixLen(w)
      rest == SubSeq(w, n + 1, Len(w))
  IN  IF n = 0 THEN NaN
      ELSE IF rest = << >> THEN DecimalValue(SubSeq(w, 1, n))
      ELSE IF /\ Head(rest) = "e"
              /\ Len(rest) > 1
              /\ DigitPrefixLen(Tail(rest)) = Len(rest) - 1
           THEN DecimalValue(SubSeq(w, 1, n)) * Pow10(DecimalValue(Tail(rest)))
      ELSE NaN

\* Math.min / Math.max of two coerced values: NaN if either is NaN
MathMin(a, b) == IF a = NaN \/ b = NaN THEN NaN ELSE IF a <= b THEN a ELSE b
MathMax(a, b) == IF a = NaN \/ b = NaN THEN NaN ELSE IF a >= b THEN a ELSE b

\* the identifiers clients put on the wire: the decimal text of each user id,
\* and "1e1", whose leading digits read 1 and whose numeric value is 10
Missing == << >>
WireIds == { <<"1">>, <<"1", "0">>, <<"1", "1">>, <<"1", "e", "1">> }

\* the text a correct client sends for user u (user.id from the login reply)
WireOf(u) == CHOOSE w \in WireIds : DigitPrefixLen(w) = Len(w) /\ parseInt(w) = u

(***************************************************************************)
(* PQC primitive layer, symbolically.                                      *)
(***************************************************************************)
SharedSecrets == {"ss1"}
Ivs == {"iv1"}
Plaintexts == {"hello"}
Failure == "failure"

\* kyberEncapsulate: ciphertext for the holder of pk, carrying shared secret ss
kyberEncapsulate(pk, ss) ==
  [ciphertext |-> "kem[" \o pk \o "," \o ss \o "]", sharedSecret |-> ss]

\* kyberDecapsulate: the shared secret if the ciphertext was made for the
\* public key that matches sk; ML-KEM's implicit rejection value otherwise
kyberDecapsulate(ciphertext, sk) ==
  LET hit == {p \in Users \X SharedSecrets :
                /\ sk = kyber_secret_key(p[1])
                /\ ciphertext = kyberEncapsulate(kyber_public_key(p[1]), p[2]).ciphertext}
  IN  IF hit = {} THEN "ss.rejected" ELSE (CHOOSE p \in hit : TRUE)[2]

\* encryptMessage: AES-256-GCM under sharedSecret with a fresh iv
encryptMessage(plaintext, sharedSecret, iv) ==
  [ciphertext |-> "aes[" \o sharedSecret \o "," \o iv \o "," \o plaintext \o "]",
   iv |-> iv,
   authTag |-> "tag[" \o sharedSecret \o "," \o iv \o "," \o plaintext \o "]"]

\* decryptMessage: the plaintext if key, iv and tag all match; throws otherwise
decryptMessage(ciphertext, sharedSecret, iv, authTag) ==
  LET hit == {pt \in Plaintexts :
                LET e == encryptMessage(pt, sharedSecret, iv)
                IN  e.ciphertext = ciphertext /\ e.authTag = authTag}
  IN  IF hit = {} THEN Failure ELSE CHOOSE pt \in hit : TRUE

\* signWithFalcon: signature over data by the holder of secretKey
signWithFalcon(data, secretKey) ==
  LET signer == CHOOSE u \in Users : falcon_secret_key(u) = secretKey
  IN  "sig[" \o username(signer) \o "," \o data \o "]"

\* verifyWithFalcon: true iff signature was made over exactly data by the
\* secret key matching publicKey
verifyWithFalcon(data, signature, publicKey) ==
  \E u \in Users :
    /\ publicKey = falcon_public_key(u)
    /\ signature = signWithFalcon(data, falcon_secret_key(u))

(***************************************************************************)
(* Envelope codecs.                                                        *)
(***************************************************************************)
\* frontend crypto.js: JSON.stringify({ c, i, t })
buildSignaturePayload(ciphertextBase64, ivBase64, authTagBase64) ==
  "{\"c\":\"" \o ciphertextBase64 \o "\",\"i\":\"" \o ivBase64
     \o "\",\"t\":\"" \o authTagBase64 \o "\"}"

\* backend: encryptedMessage + iv + authTag
concatPayload(encryptedMessage, iv, authTag) == encryptedMessage \o iv \o authTag

\* frontend crypto.js encryptAndSignMessage
encryptAndSignMessage(plaintext, receiverKyberPublicKey, senderFalconSecretKey, ss, iv) ==
  LET kem == kyberEncapsulate(receiverKyberPublicKey, ss)
      enc == encryptMessage(plaintext, kem.sharedSecret, iv)
      dataToSign == buildSignaturePayload(enc.ciphertext, enc.iv, enc.authTag)
  IN  [kyberCiphertext |-> kem.ciphertext,
       encryptedMessage |-> enc.ciphertext,
       iv |-> enc.iv,
       authTag |-> enc.authTag,
       signature |-> signWithFalcon(dataToSign, senderFalconSecretKey)]

\* backend pqc.js encryptAndSignMessage
pqcEncryptAndSignMessage(plaintext, receiverKyberPublicKey, senderFalconSecretKey, ss, iv) ==
  LET kem == kyberEncapsulate(receiverKyberPublicKey, ss)
      enc == encryptMessage(plaintext, kem.sharedSecret, iv)
      dataToSign == concatPayload(enc.ciphertext, enc.iv, enc.authTag)
  IN  [kyberCiphertext |-> kem.ciphertext,
       encryptedMessage |-> enc.ciphertext,
       iv |-> enc.iv,
       authTag |-> enc.authTag,
       signature |-> signWithFalcon(dataToSign, senderFalconSecretKey)]

(***************************************************************************)
(* State.                                                                  *)
(***************************************************************************)
VARIABLES
  usePostgres,      \* db.js: PostgreSQL when DATABASE_URL is set, else SQLite
  friend_requests,  \* friend_requests table: (sender_id, receiver_id) -> status
  friendships,      \* friendships table: a bag of rows
  http,             \* the HTTP friend-route handlers in flight, by slot
  sockets,          \* the Socket.IO connections, by socket id
  inflight,         \* the socket event handlers in flight, by slot
  out,              \* what the last step sent: HTTP reply or socket events
  hits,             \* express-rate-limit: the hits of the window, by limiter and key
  calls,            \* POST /request calls of the current hour, by user (history)
  now,              \* the tab's clock (Date.now()), in minutes
  localStorage,     \* localStorage: the saved user (with the token)
  sessionUser,      \* crypto.js: let sessionUser
  sessionKEK,       \* crypto.js: let sessionKEK
  sessionTimeoutId, \* crypto.js: let sessionTimeoutId
  sessionStorage,   \* sessionStorage: the three qs_session_ items
  secrets,          \* IndexedDB object store 'secrets', by record id
  meta,             \* IndexedDB object store 'meta', by record id
  ret,              \* what the last keystore call returned or threw
  lastActivity,     \* minute of the last initialize, unlock or getSecretKeys
                    \* call (history)
  suspended         \* the keystore call of the tab that waits at an await

serverVars ==
  <<usePostgres, friend_requests, friendships, http, sockets, inflight, out, hits, calls>>

limiterVars == <<hits, calls>>

keystoreVars ==
  <<now, localStorage, sessionUser, sessionKEK, sessionTimeoutId, sessionStorage,
    secrets, meta, ret, lastActivity, suspended>>

vars == <<serverVars, keystoreVars>>

dbVars == <<friend_requests, friendships>>

(***************************************************************************)
(* Tables.  A friend_requests row is identified by its (sender_id,         *)
(* receiver_id): UNIQUE(sender_id, receiver_id) and the absence of any     *)
(* DELETE on the table make that pair determine the autoincrement id.      *)
(* Status "none" means no row.  A friendships row carries, in place of     *)
(* its id and created_at columns, the request whose accept inserted it.    *)
(***************************************************************************)
RequestKeys == Users \X Users

NoRequests == [k \in RequestKeys |-> "none"]

FriendshipRow(user_id_1, user_id_2, via) ==
  [user_id_1 |-> user_id_1, user_id_2 |-> user_id_2, via |-> via]

\* SELECT id FROM friendships WHERE user_id_1 = a AND user_id_2 = b
selectFriendship(a, b) ==
  {row \in BagToSet(friendships) : row.user_id_1 = a /\ row.user_id_2 = b}

\* UNIQUE(user_id_1, user_id_2) on friendships
uniqueFriendship(user_id_1, user_id_2) == selectFriendship(user_id_1, user_id_2) = {}

\* DELETE FROM friendships WHERE user_id_1 = a AND user_id_2 = b
deleteFriendship(a, b) ==
  LET keep == BagToSet(friendships) \ selectFriendship(a, b)
  IN  [row \in keep |-> friendships[row]]

\* UNIQUE(sender_id, receiver_id) on friend_requests
uniqueRequest(sender_id, receiver_id) == friend_requests[<<sender_id, receiver_id>>] = "none"

(***************************************************************************)
(* What a step sends.  HTTP replies carry the status code in resp; socket  *)
(* steps carry the event sent to the emitting socket in resp/error and the *)
(* event sent to the receiver's room in recv/room/data.  from is the user  *)
(* an HTTP reply answers, userId the socket.userId of the connection whose *)
(* event is delivered, and friendRow tells whether the friendship row of   *)
(* data's two ids is in the table as the event is sent, and late whether   *)
(* an event that the same connection sent later to the same receiver was   *)
(* delivered before this one; req is the request (request_id) that the     *)
(* reply of an accept or a reject is about.  from, userId, friendRow, late *)
(* and req are history, not program state.                                 *)
(***************************************************************************)
NoEnvelope ==
  [kyberCiphertext |-> "", encryptedMessage |-> "", iv |-> "", authTag |-> "",
   signature |-> ""]

\* the metadata of the file a sendFile event carries beside the envelope:
\* fileName, fileSize (its decimal text) and fileType
FileMeta == [fileName |-> "notes.txt", fileSize |-> "5", fileType |-> "text/plain"]

\* no file metadata; "" stands for a field the payload does not have
NoFile == [fileName |-> "", fileSize |-> "", fileType |-> ""]

NoData ==
  [senderId |-> Missing, receiverId |-> Missing, bundle |-> NoEnvelope,
   file |-> NoFile]

\* messageData: the payload of receiveMessage, built from the fields the
\* handler took from the event
messageData(t) ==
  [senderId |-> t.senderId, receiverId |-> t.receiverId, bundle |-> t.bundle,
   file |-> NoFile]

\* fileTransferData: the payload of receiveFile.  The handler takes
\* receiverId, fileName, fileSize, fileData and the envelope fields from the
\* event and senderId from the socket; it reads no fileType and writes none.
fileTransferData(t, file) ==
  [senderId |-> t.senderId, receiverId |-> t.receiverId, bundle |-> t.bundle,
   file |-> [fileName |-> file.fileName, fileSize |-> file.fileSize,
             fileType |-> ""]]

NoOut ==
  [op |-> "none", resp |-> "none", error |-> "",
   recv |-> "none", room |-> {}, data |-> NoData,
   from |-> 0, userId |-> Missing, friendRow |-> FALSE, late |-> FALSE,
   req |-> <<0, 0>>]

HttpReply(op, user_id, status) ==
  [NoOut EXCEPT !.op = op, !.from = user_id, !.resp = status]

\* the reply of /request/:request_id/accept and /request/:request_id/reject
RequestReply(op, user_id, status, request_id) ==
  [HttpReply(op, user_id, status) EXCEPT !.req = request_id]

(***************************************************************************)
(* Friend routes (api/friendRoutes.js).  Every database call is            *)
(* asynchronous: the statement runs, and its callback with it, in a later  *)
(* step than the one that issued it.  A request's arrival is merged with   *)
(* the run of its first statement, since arrival itself reads and writes   *)
(* nothing.                                                                *)
(***************************************************************************)
HttpSlots == 1..MaxHttp

HttpIdle == [kind |-> "idle", pc |-> "idle", user_id |-> 0, req |-> <<0, 0>>]

\* the users that call the friend routes, the usernames and friend ids they pass
HttpUsers == {10, 11}
Usernames == {username(u) : u \in HttpUsers} \cup {"", "nobody"}
FriendIds == {WireOf(u) : u \in HttpUsers}

\* SELECT id FROM users WHERE username = ?
selectUserByName(name) == {u \in Users : username(u) = name}

\* POST /request: sender user_id asks receiver_username
\* runs getReceiverStmt and its callback
postRequest(h, sender_id, receiver_username) ==
  /\ http[h] = HttpIdle
  /\ IF receiver_username = ""
     THEN /\ out' = HttpReply("create", sender_id, "400")
          /\ UNCHANGED http
     ELSE LET receiver == selectUserByName(receiver_username)
          IN  IF receiver = {}
              THEN /\ out' = HttpReply("create", sender_id, "404")
                   /\ UNCHANGED http
              ELSE LET id == CHOOSE u \in receiver : TRUE
                   IN  IF id = sender_id
                       THEN /\ out' = HttpReply("create", sender_id, "400")
                            /\ UNCHANGED http
                       ELSE /\ http' = [http EXCEPT ![h] =
                                          [kind |-> "create", pc |-> "checkFriendship",
                                           user_id |-> sender_id,
                                           req |-> <<sender_id, id>>]]
                            /\ out' = NoOut
  /\ UNCHANGED <<keystoreVars, usePostgres, dbVars, sockets, inflight>>

\* POST /request of a client that is within every rate limit
CreateRequest(h, sender_id, receiver_username) ==
  /\ postRequest(h, sender_id, receiver_username)
  /\ UNCHANGED limiterVars

\* checkFriendshipStmt and its callback
CreateCheckFriendship(h) ==
  /\ http[h].kind = "create" /\ http[h].pc = "checkFriendship"
  /\ LET s == http[h].req[1]
         r == http[h].req[2]
     IN  IF selectFriendship(s, r) \cup selectFriendship(r, s) # {}
         THEN /\ http' = [http EXCEPT ![h] = HttpIdle]
              /\ out' = HttpReply("create", s, "400")
         ELSE /\ http' = [http EXCEPT ![h].pc = "checkRequest"]
              /\ out' = NoOut
  /\ UNCHANGED <<keystoreVars, limiterVars, usePostgres, dbVars, sockets, inflight>>

\* checkRequestStmt and its callback: .get() hands over one of the rows that
\* match either direction; SQL fixes no order, so which one is a choice
CreateCheckRequest(h) ==
  /\ http[h].kind = "create" /\ http[h].pc = "checkRequest"
  /\ LET s == http[h].req[1]
         r == http[h].req[2]
         rows == {k \in {<<s, r>>, <<r, s>>} : friend_requests[k] # "none"}
     IN  \E existingRequest \in IF rows = {} THEN {<<0, 0>>} ELSE rows :
           IF /\ existingRequest # <<0, 0>>
              /\ friend_requests[existingRequest] \in {"pending", "accepted"}
           THEN /\ http' = [http EXCEPT ![h] = HttpIdle]
                /\ out' = HttpReply("create", s, "400")
           ELSE /\ http' = [http EXCEPT ![h].pc = "createRequest"]
                /\ out' = NoOut
  /\ UNCHANGED <<keystoreVars, limiterVars, usePostgres, dbVars, sockets, inflight>>

\* createRequestStmt (the INSERT) and its callback
CreateInsert(h) ==
  /\ http[h].kind = "create" /\ http[h].pc = "createRequest"
  /\ LET s == http[h].req[1]
         r == http[h].req[2]
     IN  IF uniqueRequest(s, r)
         THEN /\ friend_requests' = [friend_requests EXCEPT ![<<s, r>>] = "pending"]
              /\ out' = HttpReply("create", s, "201")
         ELSE /\ UNCHANGED friend_requests
              /\ out' = HttpReply("create", s, "500")
  /\ http' = [http EXCEPT ![h] = HttpIdle]
  /\ UNCHANGED <<keystoreVars, limiterVars, usePostgres, friendships, sockets, inflight>>

\* the lookup by id alone: SELECT * FROM friend_requests WHERE id = ?
selectRequest_anyCaller(request_id, user_id) ==
  {k \in {request_id} : friend_requests[k] # "none"}

\* SELECT * FROM friend_requests WHERE id = ? AND receiver_id = ?
selectRequest(request_id, user_id) ==
  {k \in {request_id} : friend_requests[k] # "none" /\ k[2] = user_id}

\* POST /request/:request_id/accept: runs getRequestStmt and its callback
AcceptRequest(h, user_id, request_id) ==
  /\ http[h] = HttpIdle
  /\ LET friendRequest == selectRequest(request_id, user_id)
     IN  IF friendRequest = {}
         THEN /\ out' = RequestReply("accept", user_id, "404", request_id)
              /\ UNCHANGED http
         ELSE IF friend_requests[request_id] # "pending"
         THEN /\ out' = RequestReply("accept", user_id, "400", request_id)
              /\ UNCHANGED http
         ELSE /\ http' = [http EXCEPT ![h] =
                            [kind |-> "accept", pc |-> "createFriendship",
                             user_id |-> user_id, req |-> request_id]]
              /\ out' = NoOut
  /\ UNCHANGED <<keystoreVars, limiterVars, usePostgres, dbVars, sockets, inflight>>

\* the row as (sender_id, user_id), the pair left in the order of the request
acceptedRow_unordered(sender_id, user_id, via) ==
  FriendshipRow(sender_id, user_id, via)

\* the row accept inserts: (Math.min(sender_id, user_id), Math.max(sender_id, user_id))
acceptedRow(sender_id, user_id, via) ==
  FriendshipRow(MathMin(sender_id, user_id), MathMax(sender_id, user_id), via)

\* createFriendshipStmt's callback without the return in front of the 500:
\* after a failed INSERT the handler goes on to the UPDATE
AcceptCreateFriendship_noReturn(h) ==
  /\ http[h].kind = "accept" /\ http[h].pc = "createFriendship"
  /\ LET row == acceptedRow(http[h].req[1], http[h].user_id, http[h].req)
     IN  IF uniqueFriendship(row.user_id_1, row.user_id_2)
         THEN /\ friendships' = friendships (+) SetToBag({row})
              /\ out' = NoOut
         ELSE /\ UNCHANGED friendships
              /\ out' = RequestReply("accept", http[h].user_id, "500", http[h].req)
  /\ http' = [http EXCEPT ![h].pc = "updateRequest"]
  /\ UNCHANGED <<keystoreVars, limiterVars, usePostgres, friend_requests, sockets, inflight>>

\* createFriendshipStmt (the INSERT) and its callback
AcceptCreateFriendship(h) ==
  /\ http[h].kind = "accept" /\ http[h].pc = "createFriendship"
  /\ LET row == acceptedRow(http[h].req[1], http[h].user_id, http[h].req)
     IN  IF uniqueFriendship(row.user_id_1, row.user_id_2)
         THEN /\ friendships' = friendships (+) SetToBag({row})
              /\ http' = [http EXCEPT ![h].pc = "updateRequest"]
              /\ out' = NoOut
         ELSE /\ UNCHANGED friendships
              /\ http' = [http EXCEPT ![h] = HttpIdle]
              /\ out' = RequestReply("accept", http[h].user_id, "500", http[h].req)
  /\ UNCHANGED <<keystoreVars, limiterVars, usePostgres, friend_requests, sockets, inflight>>

\* UPDATE friend_requests SET status = ? WHERE id = ?
updateRequestStatus(status, request_id) ==
  [friend_requests EXCEPT ![request_id] = status]

\* updateRequestStmt of accept and its callback; the statement can fail
\* (err), and the callback then answers 500 and undoes nothing
AcceptUpdateRequest(h) ==
  /\ http[h].kind = "accept" /\ http[h].pc = "updateRequest"
  /\ \E err \in BOOLEAN :
       IF err
       THEN /\ UNCHANGED friend_requests
            /\ out' = RequestReply("accept", http[h].user_id, "500", http[h].req)
       ELSE /\ friend_requests' = updateRequestStatus("accepted", http[h].req)
            /\ out' = RequestReply("accept", http[h].user_id, "200", http[h].req)
  /\ http' = [http EXCEPT ![h] = HttpIdle]
  /\ UNCHANGED <<keystoreVars, limiterVars, usePostgres, friendships, sockets, inflight>>

\* POST /request/:request_id/reject: runs getRequestStmt and its callback
RejectRequest(h, user_id, request_id) ==
  /\ http[h] = HttpIdle
  /\ LET friendRequest == selectRequest(request_id, user_id)
     IN  IF friendRequest = {}
         THEN /\ out' = RequestReply("reject", user_id, "404", request_id)
              /\ UNCHANGED http
         ELSE IF friend_requests[request_id] # "pending"
         THEN /\ out' = RequestReply("reject", user_id, "400", request_id)
              /\ UNCHANGED http
         ELSE /\ http' = [http EXCEPT ![h] =
                            [kind |-> "reject", pc |-> "updateRequest",
                             user_id |-> user_id, req |-> request_id]]
              /\ out' = NoOut
  /\ UNCHANGED <<keystoreVars, limiterVars, usePostgres, dbVars, sockets, inflight>>

\* updateStmt of reject and its callback
RejectUpdateRequest(h) ==
  /\ http[h].kind = "reject" /\ http[h].pc = "updateRequest"
  /\ friend_requests' = updateRequestStatus("rejected", http[h].req)
  /\ out' = RequestReply("reject", http[h].user_id, "200", http[h].req)
  /\ http' = [http EXCEPT ![h] = HttpIdle]
  /\ UNCHANGED <<keystoreVars, limiterVars, usePostgres, friendships, sockets, inflight>>

\* DELETE /:friend_id: one statement, then the reply
RemoveFriend(user_id, friend_id) ==
  /\ LET user_id_1 == MathMin(user_id, parseInt(friend_id))
         user_id_2 == MathMax(user_id, parseInt(friend_id))
     IN  friendships' = deleteFriendship(user_id_1, user_id_2)
  /\ out' = HttpReply("remove", user_id, "200")
  /\ UNCHANGED <<keystoreVars, limiterVars, usePostgres, friend_requests, http, sockets, inflight>>

(***************************************************************************)
(* Relay (server.js): handshake, rooms, disconnect.                        *)
(***************************************************************************)
SocketIds == {"s1", "s2"}

\* tokenId is the id the connection's token was issued for (decoded.id); the
\* relay itself keeps only userId, the text the client supplied
Closed == [connected |-> FALSE, userId |-> Missing, tokenId |-> 0, room |-> Missing]

\* a bearer token: the id it was issued for, and whether jwt.verify accepts it
NoToken == [id |-> 0, state |-> "missing"]
Tokens ==
  {[id |-> u, state |-> "valid"] : u \in Users} \cup {[id |-> 10, state |-> "expired"]}

\* jwt.verify(token, JWT_SECRET): throws unless the signature is good and
\* the token has not expired
jwtVerify(token) == token.state = "valid"

\* `user_${userId}`
roomName(userId) == <<"u", "s", "e", "r", "_">> \o userId

\* io.sockets.adapter.rooms.get(room): the sockets that joined it
adapterRoom(room) == {s \in SocketIds : sockets[s].room = room}

InflightSlots == 1..MaxInflight

\* a socket event handler in flight: the event's fields, the key row it has
\* read, and the socket.userId of the emitting connection; overtaken records
\* that a later event of the same kind, connection user and receiver has
\* been delivered already.  The handlers in flight are kept in the order in
\* which their events arrived, the idle slots last.
Idle ==
  [kind |-> "idle", pc |-> "idle", senderId |-> Missing, receiverId |-> Missing,
   bundle |-> NoEnvelope, key |-> "", userId |-> Missing, overtaken |-> FALSE]

\* handler t returns (delivered: it has emitted its envelope): the handlers
\* that arrived after it move up
retire(t, delivered) ==
  LET marked == [u \in DOMAIN inflight |->
                   IF /\ delivered /\ u < t
                      /\ inflight[u].kind = inflight[t].kind
                      /\ inflight[u].userId = inflight[t].userId
                      /\ inflight[u].receiverId = inflight[t].receiverId
                   THEN [inflight[u] EXCEPT !.overtaken = TRUE]
                   ELSE inflight[u]]
  IN  [i \in DOMAIN inflight |->
         IF i < t THEN marked[i]
         ELSE IF i + 1 \in DOMAIN inflight THEN marked[i + 1]
         ELSE Idle]

\* the handshake test of io.use: TRUE iff the connection is accepted
handshakeAccepts(token, userId) ==
  /\ token # NoToken /\ userId # Missing
  /\ jwtVerify(token)
  /\ token.id = parseInt(userId)

\* the Error a rejected handshake is answered with
handshakeError(token, userId) ==
  IF token = NoToken \/ userId = Missing
  THEN "Authentication error: Missing credentials"
  ELSE IF ~jwtVerify(token)
  THEN "Authentication error: Invalid token"
  ELSE "Authentication error: Invalid credentials"

\* io.use middleware, then io.on('connection'): tag the socket and join the room
Handshake(s, token, userId) ==
  /\ ~sockets[s].connected
  /\ IF handshakeAccepts(token, userId)
     THEN /\ sockets' = [sockets EXCEPT ![s] =
                           [connected |-> TRUE, userId |-> userId, tokenId |-> token.id,
                            room |-> roomName(userId)]]
          /\ out' = NoOut
     ELSE /\ UNCHANGED sockets
          /\ out' = [NoOut EXCEPT !.op = "handshake", !.resp = "connect_error",
                                  !.error = handshakeError(token, userId)]
  /\ UNCHANGED <<keystoreVars, limiterVars, usePostgres, dbVars, http, inflight>>

\* socket.on('disconnect'): Socket.IO takes the socket out of its rooms
Disconnect(s) ==
  /\ sockets[s].connected
  /\ sockets' = [sockets EXCEPT ![s] = Closed]
  /\ out' = NoOut
  /\ UNCHANGED <<keystoreVars, limiterVars, usePostgres, dbVars, http, inflight>>

(***************************************************************************)
(* What a client puts into sendMessage / sendFile.  The client of socket s *)
(* holds the secret keys of the user it logged in as (tokenId).  It builds *)
(* the envelope with the web client's codec ("client"), with the backend's *)
(* codec ("pqc"), sends on the envelope it has just received ("replay"),   *)
(* or leaves the signature out ("incomplete").                             *)
(***************************************************************************)
Codecs == {"client", "pqc", "replay", "incomplete"}

\* the last step delivered an envelope to socket s
justReceived(s) == out.recv # "none" /\ s \in out.room

\* the user whose Kyber key the client encrypts to
recipientOf(from, receiverId) ==
  IF ToNumber(receiverId) \in Users THEN ToNumber(receiverId) ELSE from

\* the fresh IVs of the messages a client sends in a row
PipelineIvs == {"iv1", "iv2"}

\* the envelopes the two codecs build, by signer and recipient
Envelopes ==
  [codec \in {"client", "pqc"}, from \in Users, to \in Users,
   plaintext \in Plaintexts, ss \in SharedSecrets, iv \in Ivs \cup PipelineIvs |->
     IF codec = "client"
     THEN encryptAndSignMessage(plaintext, kyber_public_key(to),
                                falcon_secret_key(from), ss, iv)
     ELSE pqcEncryptAndSignMessage(plaintext, kyber_public_key(to),
                                   falcon_secret_key(from), ss, iv)]

clientBundle(s, receiverId, codec, plaintext, ss, iv) ==
  LET from == sockets[s].tokenId
      to == recipientOf(from, receiverId)
  IN  CASE codec = "client" -> Envelopes["client", from, to, plaintext, ss, iv]
        [] codec = "pqc" -> Envelopes["pqc", from, to, plaintext, ss, iv]
        [] codec = "replay" -> out.data.bundle
        [] codec = "incomplete" ->
             [Envelopes["client", from, to, plaintext, ss, iv] EXCEPT !.signature = ""]

\* !kyberCiphertext || !iv || !authTag || !signature || !encryptedMessage
incomplete(bundle) ==
  \/ bundle.kyberCiphertext = "" \/ bundle.iv = "" \/ bundle.authTag = ""
  \/ bundle.signature = "" \/ bundle.encryptedMessage = ""

FreeSlot(t) == inflight[t] = Idle /\ \A u \in DOMAIN inflight : u < t => inflight[u] # Idle

(***************************************************************************)
(* sendMessage handler.                                                    *)
(***************************************************************************)
\* parseInt(senderId) !== parseInt(socket.userId)
senderMismatch(senderId, userId) ==
  \/ parseInt(senderId) = NaN \/ parseInt(userId) = NaN
  \/ parseInt(senderId) # parseInt(userId)

\* socket.emit(event, { error }): the error event carries the text alone
SocketError(op, event, error) ==
  [NoOut EXCEPT !.op = op, !.resp = event, !.error = error]

\* sendMessage with the encryption fields looked at before the sender id
SendMessage_fieldsFirst(s, senderId, receiverId, codec, plaintext, ss, iv) ==
  /\ sockets[s].connected
  /\ codec = "replay" => justReceived(s)
  /\ \E t \in DOMAIN inflight :
       /\ FreeSlot(t)
       /\ IF incomplete(clientBundle(s, receiverId, codec, plaintext, ss, iv))
          THEN /\ out' = SocketError("sendMessage", "messageError",
                                     "Encryption is mandatory. All messages must be encrypted with post-quantum cryptography.")
               /\ UNCHANGED inflight
          ELSE IF senderMismatch(senderId, sockets[s].userId)
          THEN /\ out' = SocketError("sendMessage", "messageError",
                                     "Unauthorized: Sender ID mismatch")
               /\ UNCHANGED inflight
          ELSE IF receiverId = Missing
          THEN /\ out' = SocketError("sendMessage", "messageError", "Missing receiver ID")
               /\ UNCHANGED inflight
          ELSE /\ inflight' = [inflight EXCEPT ![t] =
                                 [kind |-> "sendMessage", pc |-> "checkFriend",
                                  senderId |-> senderId, receiverId |-> receiverId,
                                  bundle |-> clientBundle(s, receiverId, codec,
                                                          plaintext, ss, iv),
                                  key |-> "", userId |-> sockets[s].userId,
                                  overtaken |-> FALSE]]
               /\ out' = NoOut
  /\ UNCHANGED <<keystoreVars, limiterVars, usePostgres, dbVars, http, sockets>>

\* the event arrives: the synchronous checks, then checkFriendStmt is issued
SendMessage(s, senderId, receiverId, codec, plaintext, ss, iv) ==
  /\ sockets[s].connected
  /\ codec = "replay" => justReceived(s)
  /\ \E t \in DOMAIN inflight :
       /\ FreeSlot(t)
       /\ IF senderMismatch(senderId, sockets[s].userId)
          THEN /\ out' = SocketError("sendMessage", "messageError",
                                     "Unauthorized: Sender ID mismatch")
               /\ UNCHANGED inflight
          ELSE IF incomplete(clientBundle(s, receiverId, codec, plaintext, ss, iv))
          THEN /\ out' = SocketError("sendMessage", "messageError",
                                     "Encryption is mandatory. All messages must be encrypted with post-quantum cryptography.")
               /\ UNCHANGED inflight
          ELSE IF receiverId = Missing
          THEN /\ out' = SocketError("sendMessage", "messageError", "Missing receiver ID")
               /\ UNCHANGED inflight
          ELSE /\ inflight' = [inflight EXCEPT ![t] =
                                 [kind |-> "sendMessage", pc |-> "checkFriend",
                                  senderId |-> senderId, receiverId |-> receiverId,
                                  bundle |-> clientBundle(s, receiverId, codec,
                                                          plaintext, ss, iv),
                                  key |-> "", userId |-> sockets[s].userId,
                                  overtaken |-> FALSE]]
               /\ out' = NoOut
  /\ UNCHANGED <<keystoreVars, limiterVars, usePostgres, dbVars, http, sockets>>

\* the lookup asking only whether the sender has a friend at all
friendshipOf_anyFriend(senderId, receiverId) ==
  {row \in BagToSet(friendships) :
     ToNumber(senderId) \in {row.user_id_1, row.user_id_2}}

\* the friendship lookup of sendMessage: Math.min / Math.max of the two ids
\* as the client sent them
friendshipOf(senderId, receiverId) ==
  selectFriendship(MathMin(ToNumber(senderId), ToNumber(receiverId)),
                   MathMax(ToNumber(senderId), ToNumber(receiverId)))

\* checkFriendStmt's callback without the return in front of socket.emit: the
\* error is sent and the handler goes on to senderKeyStmt
MessageCheckFriend_noReturn(t) ==
  /\ inflight[t].kind = "sendMessage" /\ inflight[t].pc = "checkFriend"
  /\ out' = IF friendshipOf(inflight[t].senderId, inflight[t].receiverId) = {}
            THEN SocketError("sendMessage", "messageError", "You can only message friends")
            ELSE NoOut
  /\ inflight' = [inflight EXCEPT ![t].pc = "senderKey"]
  /\ UNCHANGED <<keystoreVars, limiterVars, usePostgres, dbVars, http, sockets>>

\* checkFriendStmt runs; its callback issues senderKeyStmt
MessageCheckFriend(t) ==
  /\ inflight[t].kind = "sendMessage" /\ inflight[t].pc = "checkFriend"
  /\ IF friendshipOf(inflight[t].senderId, inflight[t].receiverId) = {}
     THEN /\ out' = SocketError("sendMessage", "messageError",
                                "You can only message friends")
          /\ inflight' = retire(t, FALSE)
     ELSE /\ out' = NoOut
          /\ inflight' = [inflight EXCEPT ![t].pc = "senderKey"]
  /\ UNCHANGED <<keystoreVars, limiterVars, usePostgres, dbVars, http, sockets>>

\* SELECT falcon_public_key FROM users WHERE id = ?, with the id bound as the
\* client sent it.  SQLite gives the text numeric affinity and compares its
\* value; PostgreSQL parses it as an integer and fails on anything but digits.
selectUserById(id) ==
  IF usePostgres
  THEN IF DigitPrefixLen(id) = Len(id) THEN {u \in Users : u = parseInt(id)} ELSE {}
  ELSE {u \in Users : u = ToNumber(id)}

\* what the relay verifies the signature over: encryptedMessage + iv + authTag
dataToVerify(bundle) == concatPayload(bundle.encryptedMessage, bundle.iv, bundle.authTag)

\* senderKeyStmt runs; its callback calls verifyWithFalcon and awaits it
MessageSenderKey(t) ==
  /\ inflight[t].kind = "sendMessage" /\ inflight[t].pc = "senderKey"
  /\ LET senderUser == selectUserById(inflight[t].senderId)
     IN  IF senderUser = {}
         THEN /\ out' = SocketError("sendMessage", "messageError",
                                    "Failed to verify sender")
              /\ inflight' = retire(t, FALSE)
         ELSE /\ out' = NoOut
              /\ inflight' = [inflight EXCEPT
                                ![t].pc = "verify",
                                ![t].key = falcon_public_key(CHOOSE u \in senderUser : TRUE)]
  /\ UNCHANGED <<keystoreVars, limiterVars, usePostgres, dbVars, http, sockets>>

\* some socket is connected, whichever room it joined
receiverOnline_anySocket(receiverId) == \E s \in SocketIds : sockets[s].connected

\* receiverSockets && receiverSockets.size > 0
receiverOnline(receiverId) == adapterRoom(roomName(receiverId)) # {}

\* the delivery step without the room check: emit to the room and acknowledge
Delivery_unchecked(op, t, recvEvent, ackEvent, errEvent, offlineText) ==
  [op |-> op, resp |-> ackEvent, error |-> "",
   recv |-> recvEvent, room |-> adapterRoom(roomName(t.receiverId)),
   data |-> IF op = "sendFile" THEN fileTransferData(t, FileMeta) ELSE messageData(t),
   from |-> 0, userId |-> t.userId,
   friendRow |-> friendshipOf(t.senderId, t.receiverId) # {},
        late |-> t.overtaken, req |-> <<0, 0>>]

\* the events of the delivery step of a handler whose signature check passed
Delivery(op, t, recvEvent, ackEvent, errEvent, offlineText) ==
  IF receiverOnline(t.receiverId)
  THEN [op |-> op, resp |-> ackEvent, error |-> "",
        recv |-> recvEvent, room |-> adapterRoom(roomName(t.receiverId)),
        data |-> IF op = "sendFile" THEN fileTransferData(t, FileMeta)
                 ELSE messageData(t),
        from |-> 0, userId |-> t.userId,
        friendRow |-> friendshipOf(t.senderId, t.receiverId) # {},
        late |-> t.overtaken, req |-> <<0, 0>>]
  ELSE SocketError(op, errEvent, offlineText)

\* verifyWithFalcon has returned: reject, or deliver to the room, or report
\* the receiver offline
MessageVerifyDeliver(t) ==
  /\ inflight[t].kind = "sendMessage" /\ inflight[t].pc = "verify"
  /\ LET task == inflight[t]
         isValid == verifyWithFalcon(dataToVerify(task.bundle), task.bundle.signature,
                                     task.key)
     IN  IF ~isValid
         THEN /\ out' = SocketError("sendMessage", "messageError",
                                    "Invalid message signature - message may be tampered")
         ELSE /\ out' = Delivery("sendMessage", task, "receiveMessage", "messageSent",
                                 "messageError",
                                 "Recipient is offline. Messages are only delivered in real-time for security.")
  /\ inflight' = retire(t, out'.recv # "none")
  /\ UNCHANGED <<keystoreVars, limiterVars, usePostgres, dbVars, http, sockets>>

(***************************************************************************)
(* sendFile handler.  The bundle's encryptedMessage field holds fileData.  *)
(***************************************************************************)
\* the event arrives: senderId is socket.userId; the synchronous checks,
\* then the sender key query is issued
SendFile(s, receiverId, codec, plaintext, ss, iv) ==
  /\ sockets[s].connected
  /\ codec = "replay" => justReceived(s)
  /\ \E t \in DOMAIN inflight :
       /\ FreeSlot(t)
       /\ IF incomplete(clientBundle(s, receiverId, codec, plaintext, ss, iv))
          THEN /\ out' = SocketError("sendFile", "fileError",
                                     "File encryption is mandatory. Missing required encryption fields.")
               /\ UNCHANGED inflight
          ELSE IF sockets[s].userId = Missing
          THEN /\ out' = SocketError("sendFile", "fileError", "Authentication required")
               /\ UNCHANGED inflight
          ELSE IF receiverId = Missing
          THEN /\ out' = SocketError("sendFile", "fileError", "Receiver ID required")
               /\ UNCHANGED inflight
          ELSE /\ inflight' = [inflight EXCEPT ![t] =
                                 [kind |-> "sendFile", pc |-> "senderKey",
                                  senderId |-> sockets[s].userId,
                                  receiverId |-> receiverId,
                                  bundle |-> clientBundle(s, receiverId, codec,
                                                          plaintext, ss, iv),
                                  key |-> "", userId |-> sockets[s].userId,
                                  overtaken |-> FALSE]]
               /\ out' = NoOut
  /\ UNCHANGED <<keystoreVars, limiterVars, usePostgres, dbVars, http, sockets>>

\* the sender key query runs; its callback calls verifyWithFalcon and awaits it
FileSenderKey(t) ==
  /\ inflight[t].kind = "sendFile" /\ inflight[t].pc = "senderKey"
  /\ LET sender == selectUserById(inflight[t].senderId)
     IN  IF sender = {}
         THEN /\ out' = SocketError("sendFile", "fileError", "Sender verification failed")
              /\ inflight' = retire(t, FALSE)
         ELSE /\ out' = NoOut
              /\ inflight' = [inflight EXCEPT
                                ![t].pc = "verify",
                                ![t].key = falcon_public_key(CHOOSE u \in sender : TRUE)]
  /\ UNCHANGED <<keystoreVars, limiterVars, usePostgres, dbVars, http, sockets>>

\* verifyWithFalcon has returned: reject, or deliver to the room, or report
\* the receiver offline
FileVerifyDeliver(t) ==
  /\ inflight[t].kind = "sendFile" /\ inflight[t].pc = "verify"
  /\ LET task == inflight[t]
         isValidSignature == verifyWithFalcon(dataToVerify(task.bundle),
                                              task.bundle.signature, task.key)
     IN  IF ~isValidSignature
         THEN /\ out' = SocketError("sendFile", "fileError", "Invalid file signature")
         ELSE /\ out' = Delivery("sendFile", task, "receiveFile", "fileDelivered",
                                 "fileError",
                                 "Recipient is offline. Files are only transferred in real-time for security.")
  /\ inflight' = retire(t, out'.recv # "none")
  /\ UNCHANGED <<keystoreVars, limiterVars, usePostgres, dbVars, http, sockets>>

(***************************************************************************)
(* Client keystore and key session (utils/crypto.js, LoginPage.js,         *)
(* App.js).  Time is counted in minutes.  One call of the keystore runs to *)
(* its end before the tab handles the next event.                          *)
(***************************************************************************)
KeystoreUsers == {10, 11}

\* the account password the login form submits
password(u) == "pw." \o username(u)
Passwords == {password(u) : u \in KeystoreUsers}

\* randomBytes(16): the salt of one initialization
Salts == {"salt1", "salt2"}
\* randomBytes(12): the IV of encryptJSON
JsonIvs == {"jiv1"}

\* SESSION_TIMEOUT_MS = 30 * 60 * 1000, in minutes
SESSION_TIMEOUT_MS == 30

\* null of sessionUser, sessionKEK and of sessionStorage.getItem: like the
\* empty string it is falsy, and no name or key is empty
null == ""

\* sessionTimeoutId = null; a running timer is kept as the minute it is due
NoTimer == -1

DigitChar(d) ==
  CASE d = 0 -> "0" [] d = 1 -> "1" [] d = 2 -> "2" [] d = 3 -> "3" [] d = 4 -> "4"
    [] d = 5 -> "5" [] d = 6 -> "6" [] d = 7 -> "7" [] d = 8 -> "8" [] d = 9 -> "9"

\* Date.now().toString()
RECURSIVE NumberToString(_)
NumberToString(n) ==
  IF n < 10 THEN <<DigitChar(n)>>
  ELSE Append(NumberToString(n \div 10), DigitChar(n % 10))

\* PBKDF2 over the password and the salt
deriveKEK(pw, salt) == "kek[" \o pw \o "," \o salt \o "]"

Keks == {deriveKEK(pw, salt) : pw \in Passwords, salt \in Salts}

\* arrayBufferToBase64(await exportKey('raw', kek))
exportKeyBase64(kek) == "b64[" \o kek \o "]"

\* importKey('raw', base64ToArrayBuffer(kekBase64), ...)
importKeyBase64(kekBase64) ==
  LET fits == {kek \in Keks : exportKeyBase64(kek) = kekBase64}
  IN  IF fits = {} THEN Failure ELSE CHOOSE kek \in fits : TRUE

\* { kyberSecretKey, falconSecretKey }
NoKeys == [kyberSecretKey |-> "", falconSecretKey |-> ""]
SecretKeys(u) ==
  [kyberSecretKey |-> kyber_secret_key(u), falconSecretKey |-> falcon_secret_key(u)]

JSONstringify(json) ==
  "{" \o json.kyberSecretKey \o "," \o json.falconSecretKey \o "}"

\* AES-GCM of the JSON text under the KEK
encryptJSON(json, kek, iv) ==
  [iv |-> iv, ciphertext |-> "gcm[" \o kek \o "," \o iv \o "," \o JSONstringify(json) \o "]"]

\* the secrets a payload opens to under kek; NoKeys when decrypt throws
decryptJSON(payload, kek) ==
  LET fits == {u \in KeystoreUsers :
                 encryptJSON(SecretKeys(u), kek, payload.iv).ciphertext = payload.ciphertext}
  IN  IF fits = {} THEN NoKeys ELSE SecretKeys(CHOOSE u \in fits : TRUE)

\* record ids of the two object stores
secretsId(name) == "secrets_" \o name
saltId(name) == "salt_" \o name
pubkeysId(name) == "pubkeys_" \o name

SecretIds == {secretsId(username(u)) : u \in KeystoreUsers}
MetaIds == {saltId(username(u)) : u \in KeystoreUsers}
             \cup {pubkeysId(username(u)) : u \in KeystoreUsers}

\* getRecord resolves null
NoSecret == [salt |-> "", iv |-> "", ciphertext |-> ""]
NoMeta == [salt |-> "", kyberPublicKey |-> "", falconPublicKey |-> ""]

\* sessionStorage without the three qs_session_ items
NoSession ==
  [qs_session_user |-> null, qs_session_kek |-> null, qs_session_timestamp |-> << >>]

\* what the last call of the tab answered: the error it threw or the keys it
\* returned, and the text setError put on the page
NoRet == [op |-> "none", error |-> "", keys |-> NoKeys, shown |-> ""]
Returned(op) == [NoRet EXCEPT !.op = op]
Thrown(op, error) == [NoRet EXCEPT !.op = op, !.error = error]

\* no call waits.  A waiting call holds its arguments and the values it has
\* read so far: the user, the password, the salt and IV it drew, the key it
\* handed to the operation it waits for, the record id and the record
NoCall ==
  [op |-> "none", pc |-> "", u |-> 0, name |-> null, pw |-> "", salt |-> "", iv |-> "",
   kek |-> null, rec |-> NoSecret]

\* sessionStorage after sessionStorage.setItem('qs_session_timestamp', Date.now())
stamped(storage) ==
  [storage EXCEPT !.qs_session_timestamp = NumberToString(now)]

\* restoreSession finds the three items, not older than the timeout
restorable ==
  /\ sessionStorage.qs_session_user # null
  /\ sessionStorage.qs_session_kek # null
  /\ sessionStorage.qs_session_timestamp # << >>
  /\ ~(now - parseInt(sessionStorage.qs_session_timestamp) > SESSION_TIMEOUT_MS)
  /\ importKeyBase64(sessionStorage.qs_session_kek) # Failure

\* restoreSession, run while the module holds user0, kek0 and timer0
restoreSession(user0, kek0, timer0) ==
  IF restorable
  THEN /\ sessionKEK' = importKeyBase64(sessionStorage.qs_session_kek)
       /\ sessionUser' = sessionStorage.qs_session_user
       /\ sessionStorage' = stamped(sessionStorage)
       /\ sessionTimeoutId' = now + SESSION_TIMEOUT_MS
  ELSE /\ sessionKEK' = kek0 /\ sessionUser' = user0 /\ sessionTimeoutId' = timer0
       /\ sessionStorage' =
            IF /\ sessionStorage.qs_session_user # null
               /\ sessionStorage.qs_session_kek # null
               /\ sessionStorage.qs_session_timestamp # << >>
            THEN NoSession
            ELSE sessionStorage

\* clearSession that leaves the persisted session in sessionStorage
clearSession_keepMirror ==
  /\ sessionTimeoutId' = NoTimer
  /\ sessionKEK' = null
  /\ sessionUser' = null
  /\ sessionStorage' = sessionStorage

\* clearSession: timer, session variables, persisted session
clearSession ==
  /\ sessionTimeoutId' = NoTimer
  /\ sessionKEK' = null
  /\ sessionUser' = null
  /\ sessionStorage' = NoSession

\* initializeSecureKeys(username, password, keys): derive, store the three
\* records, persistSession, resetSessionTimeout
initializeSecureKeys(u, pw, salt, iv) ==
  LET name == username(u)
      kek == deriveKEK(pw, salt)
      encrypted == encryptJSON(SecretKeys(u), kek, iv)
  IN  /\ sessionUser' = name
      /\ sessionKEK' = kek
      /\ secrets' = [secrets EXCEPT ![secretsId(name)] =
                       [salt |-> salt, iv |-> encrypted.iv,
                        ciphertext |-> encrypted.ciphertext]]
      /\ meta' = [meta EXCEPT
                    ![saltId(name)] = [NoMeta EXCEPT !.salt = salt],
                    ![pubkeysId(name)] =
                       [NoMeta EXCEPT !.kyberPublicKey = kyber_public_key(u),
                                      !.falconPublicKey = falcon_public_key(u)]]
      /\ sessionStorage' =
           [qs_session_user |-> name, qs_session_kek |-> exportKeyBase64(kek),
            qs_session_timestamp |-> NumberToString(now)]
      /\ sessionTimeoutId' = now + SESSION_TIMEOUT_MS

\* handleLogin after the server accepted the password: token and user go to
\* localStorage, and when the response carries keys the keystore is
\* initialized with them
Login(u, keys, salt, iv) ==
  /\ localStorage' = [user |-> username(u)]
  /\ IF keys
     THEN /\ initializeSecureKeys(u, password(u), salt, iv)
          /\ lastActivity' = now
     ELSE UNCHANGED <<sessionUser, sessionKEK, sessionTimeoutId, sessionStorage,
                      secrets, meta, lastActivity>>
  /\ ret' = Returned("login")
  /\ UNCHANGED <<now, suspended,
                 serverVars>>

\* handleLogout: token and user leave localStorage
Logout ==
  /\ localStorage.user # null
  /\ localStorage' = [user |-> null]
  /\ ret' = Returned("logout")
  /\ UNCHANGED <<now, sessionUser, sessionKEK, sessionTimeoutId, sessionStorage,
                 secrets, meta, lastActivity, suspended,
                 serverVars>>

\* the page is loaded anew: the module starts with no session and no timer,
\* and App's initializeApp calls tryRestoreSession when a user is saved
Reload ==
  /\ IF localStorage.user # null
     THEN restoreSession(null, null, NoTimer)
     ELSE /\ sessionUser' = null /\ sessionKEK' = null /\ sessionTimeoutId' = NoTimer
          /\ UNCHANGED sessionStorage
  /\ suspended' = NoCall
  /\ ret' = Returned("reload")
  /\ UNCHANGED <<now, localStorage, secrets, meta, lastActivity, serverVars>>

\* restoreSessionKEK(username, password)
restoreSessionKEK(u, pw) ==
  LET record == meta[saltId(username(u))]
  IN  /\ IF record = NoMeta
         THEN /\ ret' = Thrown("restoreSessionKEK",
                               "No keystore metadata found; re-login required")
              /\ UNCHANGED <<sessionUser, sessionKEK, sessionTimeoutId, sessionStorage>>
         ELSE /\ sessionUser' = username(u)
              /\ sessionKEK' = deriveKEK(pw, record.salt)
              /\ sessionStorage' = stamped(sessionStorage)
              /\ sessionTimeoutId' = now + SESSION_TIMEOUT_MS
              /\ ret' = Returned("restoreSessionKEK")
      /\ lastActivity' = now
      /\ UNCHANGED <<now, localStorage, secrets, meta, suspended,
                 serverVars>>

\* getSecretKeys()
getSecretKeys ==
  LET absent == sessionUser = null \/ sessionKEK = null
      user == IF absent THEN sessionStorage.qs_session_user ELSE sessionUser
      kek == IF absent THEN importKeyBase64(sessionStorage.qs_session_kek)
             ELSE sessionKEK
  IN  /\ IF absent /\ ~restorable
         THEN /\ restoreSession(sessionUser, sessionKEK, sessionTimeoutId)
              /\ ret' = Thrown("getSecretKeys",
                               "Key session not initialized; please re-login")
         ELSE IF secrets[secretsId(user)] = NoSecret
         THEN /\ IF absent
                 THEN restoreSession(sessionUser, sessionKEK, sessionTimeoutId)
                 ELSE UNCHANGED <<sessionUser, sessionKEK, sessionTimeoutId,
                                  sessionStorage>>
              /\ ret' = Thrown("getSecretKeys", "No stored secrets for current session")
         ELSE IF decryptJSON(secrets[secretsId(user)], kek) = NoKeys
         THEN /\ IF absent
                 THEN restoreSession(sessionUser, sessionKEK, sessionTimeoutId)
                 ELSE UNCHANGED <<sessionUser, sessionKEK, sessionTimeoutId,
                                  sessionStorage>>
              /\ ret' = Thrown("getSecretKeys", "OperationError")
         ELSE /\ sessionUser' = user /\ sessionKEK' = kek
              /\ sessionStorage' = stamped(sessionStorage)
              /\ sessionTimeoutId' = now + SESSION_TIMEOUT_MS
              /\ ret' = [Returned("getSecretKeys") EXCEPT
                           !.keys = decryptJSON(secrets[secretsId(user)], kek)]
      /\ lastActivity' = now
      /\ UNCHANGED <<now, localStorage, secrets, meta, suspended,
                 serverVars>>

\* the callback of the timer that resetSessionTimeout set
SessionTimeout ==
  /\ sessionTimeoutId # NoTimer /\ now >= sessionTimeoutId
  /\ clearSession
  /\ ret' = Returned("timeout")
  /\ UNCHANGED <<now, localStorage, secrets, meta, lastActivity, suspended,
                 serverVars>>

\* time passes; a timer that is due runs first
Tick ==
  /\ now + StepMinutes <= MaxClock
  /\ ~(sessionTimeoutId # NoTimer /\ now >= sessionTimeoutId)
  /\ now' = now + StepMinutes
  /\ ret' = NoRet
  /\ UNCHANGED <<localStorage, sessionUser, sessionKEK, sessionTimeoutId,
                 sessionStorage, secrets, meta, lastActivity, suspended,
                 serverVars>>

(***************************************************************************)
(* Rate limiting (express-rate-limit in middleware/security.js and         *)
(* cryptoRoutes.js).  A limiter counts the hits of its window under the    *)
(* key its keyGenerator gives a request, req.ip unless told otherwise.     *)
(***************************************************************************)
\* the network addresses requests come from
Addresses == {"ip1", "ip2"}

\* Number.prototype.toString() of a user id
RECURSIVE toString(_)
toString(n) ==
  IF n < 10 THEN DigitChar(n) ELSE toString(n \div 10) \o DigitChar(n % 10)

RateKeys == Addresses \cup {toString(u) : u \in Users}

\* apiLimiter at the mount of every /api router, encapsulateLimiter at
\* POST /kyber/encapsulate
Limiters == {"api", "encapsulate"}

\* max of apiLimiter and of encapsulateLimiter
apiLimiterMax == 100
encapsulateLimiterMax == 10

\* the requests of one window that are followed
MaxHits == 11

NoHits == [limiter \in Limiters |-> [key \in RateKeys |-> 0]]
NoCalls == [route \in {"encapsulate", "request"} |-> [u \in Users |-> 0]]

\* req.userId of a request that no middleware has set it on
undefined == 0

\* the request after verifyToken: req.user = decoded, req.userId untouched
decodedRequest(ip, token) == [ip |-> ip, user |-> token.id, userId |-> undefined]

\* keyGenerator: (req) => req.userId?.toString() || req.ip
keyGenerator(req) == IF req.userId # undefined THEN toString(req.userId) ELSE req.ip

\* the requests that have come in during the window, from all addresses
RECURSIVE requestsFrom(_)
requestsFrom(addresses) ==
  IF addresses = {} THEN 0
  ELSE LET ip == CHOOSE a \in addresses : TRUE
       IN  hits["api"][ip] + requestsFrom(addresses \ {ip})

\* the store of a limiter after the hit of key
increment(store, limiter, key) == [store EXCEPT ![limiter][key] = @ + 1]

(***************************************************************************)
(* Specifications.                                                         *)
(***************************************************************************)
\* the browser tab before anybody has logged in
KeystoreFresh ==
  /\ now = 0
  /\ localStorage = [user |-> null]
  /\ sessionUser = null /\ sessionKEK = null /\ sessionTimeoutId = NoTimer
  /\ sessionStorage = NoSession
  /\ secrets = [id \in SecretIds |-> NoSecret]
  /\ meta = [id \in MetaIds |-> NoMeta]
  /\ ret = NoRet
  /\ lastActivity = 0
  /\ suspended = NoCall

\* the friend routes alone, from empty tables
FriendsInit ==
  /\ usePostgres = FALSE
  /\ friend_requests = NoRequests
  /\ friendships = EmptyBag
  /\ http = [h \in HttpSlots |-> HttpIdle]
  /\ sockets = [s \in SocketIds |-> Closed]
  /\ inflight = [t \in InflightSlots |-> Idle]
  /\ out = NoOut
  /\ hits = NoHits /\ calls = NoCalls
  /\ KeystoreFresh

FriendsNext ==
  \/ \E h \in HttpSlots, u \in HttpUsers, name \in Usernames : CreateRequest(h, u, name)
  \/ \E h \in HttpSlots : CreateCheckFriendship(h)
  \/ \E h \in HttpSlots : CreateCheckRequest(h)
  \/ \E h \in HttpSlots : CreateInsert(h)
  \/ \E h \in HttpSlots, u \in HttpUsers, k \in HttpUsers \X HttpUsers : AcceptRequest(h, u, k)
  \/ \E h \in HttpSlots : AcceptCreateFriendship(h)
  \/ \E h \in HttpSlots : AcceptUpdateRequest(h)
  \/ \E h \in HttpSlots, u \in HttpUsers, k \in HttpUsers \X HttpUsers : RejectRequest(h, u, k)
  \/ \E h \in HttpSlots : RejectUpdateRequest(h)
  \/ \E u \in HttpUsers, f \in FriendIds : RemoveFriend(u, f)

SpecFriends == FriendsInit /\ [][FriendsNext]_vars

\* the friend routes with the requests coming one at a time: a client sends
\* its request when the reply to the one before is out
SerialNext ==
  \/ \E h \in HttpSlots, u \in Users, name \in Usernames :
       /\ \A g \in HttpSlots : http[g] = HttpIdle
       /\ CreateRequest(h, u, name)
  \/ \E h \in HttpSlots : CreateCheckFriendship(h)
  \/ \E h \in HttpSlots : CreateCheckRequest(h)
  \/ \E h \in HttpSlots : CreateInsert(h)
  \/ \E h \in HttpSlots, u \in Users, k \in RequestKeys :
       /\ \A g \in HttpSlots : http[g] = HttpIdle
       /\ AcceptRequest(h, u, k)
  \/ \E h \in HttpSlots : AcceptCreateFriendship(h)
  \/ \E h \in HttpSlots : AcceptUpdateRequest(h)
  \/ \E h \in HttpSlots, u \in Users, k \in RequestKeys :
       /\ \A g \in HttpSlots : http[g] = HttpIdle
       /\ RejectRequest(h, u, k)
  \/ \E h \in HttpSlots : RejectUpdateRequest(h)
  \/ \E u \in Users, f \in FriendIds :
       /\ \A g \in HttpSlots : http[g] = HttpIdle
       /\ RemoveFriend(u, f)

SpecFriendsSerial == FriendsInit /\ [][SerialNext]_vars

\* the relay, started on a database in which Mallory and Alice are friends
\* and Alice and Bob are friends (both requests accepted), on either backend
RelayInit ==
  /\ usePostgres \in BOOLEAN
  /\ friend_requests = [NoRequests EXCEPT ![<<1, 10>>] = "accepted",
                                          ![<<10, 11>>] = "accepted"]
  /\ friendships = SetToBag({acceptedRow(1, 10, <<1, 10>>), acceptedRow(10, 11, <<10, 11>>)})
  /\ http = [h \in HttpSlots |-> HttpIdle]
  /\ sockets = [s \in SocketIds |-> Closed]
  /\ inflight = [t \in InflightSlots |-> Idle]
  /\ out = NoOut
  /\ hits = NoHits /\ calls = NoCalls
  /\ KeystoreFresh

RelayNext ==
  \/ \E s \in SocketIds, token \in Tokens \cup {NoToken}, userId \in WireIds \cup {Missing} :
       Handshake(s, token, userId)
  \/ \E s \in SocketIds : Disconnect(s)
  \/ \E s \in SocketIds, senderId \in WireIds \cup {Missing},
        receiverId \in WireIds \cup {Missing}, codec \in Codecs,
        plaintext \in Plaintexts, ss \in SharedSecrets, iv \in Ivs :
       SendMessage(s, senderId, receiverId, codec, plaintext, ss, iv)
  \/ \E t \in InflightSlots : MessageCheckFriend(t)
  \/ \E t \in InflightSlots : MessageSenderKey(t)
  \/ \E t \in InflightSlots : MessageVerifyDeliver(t)
  \/ \E s \in SocketIds, receiverId \in WireIds \cup {Missing}, codec \in Codecs,
        plaintext \in Plaintexts, ss \in SharedSecrets, iv \in Ivs :
       SendFile(s, receiverId, codec, plaintext, ss, iv)
  \/ \E t \in InflightSlots : FileSenderKey(t)
  \/ \E t \in InflightSlots : FileVerifyDeliver(t)
  \/ \E u \in HttpUsers, f \in FriendIds : RemoveFriend(u, f)

SpecRelay == RelayInit /\ [][RelayNext]_vars

\* the relay with several sendMessage events of one connection in flight:
\* Alice's client (s1) sends messages to Bob (s2), each under a fresh IV,
\* without waiting for the answer to the one before; every handler runs its
\* steps as its own callbacks complete
PipelineSlots == 1..MaxPipelined

PipelineInit ==
  /\ usePostgres \in BOOLEAN
  /\ friend_requests = [NoRequests EXCEPT ![<<10, 11>>] = "accepted"]
  /\ friendships = SetToBag({acceptedRow(10, 11, <<10, 11>>)})
  /\ http = [h \in HttpSlots |-> HttpIdle]
  /\ sockets = [s \in SocketIds |-> Closed]
  /\ inflight = [t \in PipelineSlots |-> Idle]
  /\ out = NoOut
  /\ hits = NoHits /\ calls = NoCalls
  /\ KeystoreFresh

PipelineNext ==
  \/ Handshake("s1", [id |-> 10, state |-> "valid"], WireOf(10))
  \/ Handshake("s2", [id |-> 11, state |-> "valid"], WireOf(11))
  \/ \E s \in SocketIds : Disconnect(s)
  \/ \E codec \in {"client", "pqc"}, plaintext \in Plaintexts, ss \in SharedSecrets,
        iv \in PipelineIvs :
       /\ \A u \in PipelineSlots : inflight[u].bundle.iv # iv
       /\ SendMessage("s1", WireOf(10), WireOf(11), codec, plaintext, ss, iv)
  \/ \E t \in PipelineSlots : MessageCheckFriend(t)
  \/ \E t \in PipelineSlots : MessageSenderKey(t)
  \/ \E t \in PipelineSlots : MessageVerifyDeliver(t)

SpecPipeline == PipelineInit /\ [][PipelineNext]_vars

\* the sendMessage handler alone: clients that passed the handshake under
\* their own id send anything; connections close and friends are removed
\* while handlers are suspended
ChecksNext ==
  \/ \E s \in SocketIds, u \in Users : Handshake(s, [id |-> u, state |-> "valid"], WireOf(u))
  \/ \E s \in SocketIds : Disconnect(s)
  \/ \E s \in SocketIds, senderId \in WireIds \cup {Missing},
        receiverId \in WireIds \cup {Missing}, codec \in Codecs \ {"replay"},
        plaintext \in Plaintexts, ss \in SharedSecrets, iv \in Ivs :
       SendMessage(s, senderId, receiverId, codec, plaintext, ss, iv)
  \/ \E t \in InflightSlots : MessageCheckFriend(t)
  \/ \E t \in InflightSlots : MessageSenderKey(t)
  \/ \E t \in InflightSlots : MessageVerifyDeliver(t)
  \/ \E u \in HttpUsers, f \in FriendIds : RemoveFriend(u, f)

SpecChecks == RelayInit /\ [][ChecksNext]_vars

\* the keystore of one browser tab; the server side stands still.  The chat
\* page, which calls getSecretKeys, is shown to a logged-in user only; the
\* pages never call clearSecureSession.
KeystoreInit ==
  /\ usePostgres = FALSE
  /\ friend_requests = NoRequests
  /\ friendships = EmptyBag
  /\ http = [h \in HttpSlots |-> HttpIdle]
  /\ sockets = [s \in SocketIds |-> Closed]
  /\ inflight = [t \in InflightSlots |-> Idle]
  /\ out = NoOut
  /\ hits = NoHits /\ calls = NoCalls
  /\ KeystoreFresh

KeystoreNext ==
  \/ \E u \in KeystoreUsers, keys \in BOOLEAN, salt \in Salts, iv \in JsonIvs :
       Login(u, keys, salt, iv)
  \/ Logout
  \/ Reload
  \/ \E u \in KeystoreUsers, pw \in Passwords : restoreSessionKEK(u, pw)
  \/ localStorage.user # null /\ getSecretKeys
  \/ SessionTimeout
  \/ Tick

SpecKeystore == KeystoreInit /\ [][KeystoreNext]_vars

(***************************************************************************)
(* The keystore calls step by step (utils/crypto.js).  The exported        *)
(* functions are async: between two awaits a call runs alone, and while it *)
(* waits the tab handles other events, the session timer among them.  One  *)
(* call waits at a time.                                                   *)
(***************************************************************************)
\* resetSessionTimeout(): the timestamp item is written, the timer set anew
resetSessionTimeout(storage) ==
  /\ sessionStorage' = [storage EXCEPT !.qs_session_timestamp = NumberToString(now)]
  /\ sessionTimeoutId' = now + SESSION_TIMEOUT_MS

\* handleLogin after the server accepted the password: token and user go to
\* localStorage; with keys in the response initializeSecureKeys is called,
\* which sets sessionUser, draws the salt and waits for deriveKEK
LoginCall(u, keys, salt, iv) ==
  /\ suspended = NoCall
  /\ localStorage' = [user |-> username(u)]
  /\ IF keys
     THEN /\ sessionUser' = username(u)
          /\ suspended' = [NoCall EXCEPT !.op = "initializeSecureKeys", !.pc = "deriveKEK",
                                         !.u = u, !.pw = password(u), !.salt = salt,
                                         !.iv = iv]
          /\ lastActivity' = now
          /\ ret' = NoRet
     ELSE /\ ret' = Returned("login")
          /\ UNCHANGED <<sessionUser, suspended, lastActivity>>
  /\ UNCHANGED <<now, sessionKEK, sessionTimeoutId, sessionStorage, secrets, meta,
                 serverVars>>

\* initializeSecureKeys goes on from the await it waited at: deriveKEK,
\* encryptJSON and putRecord of the secrets, putRecord of the salt, putRecord
\* of the public keys, exportKey in persistSession (whose catch swallows the
\* error of a missing key) and then resetSessionTimeout
initializeSecureKeysResume ==
  /\ suspended.op = "initializeSecureKeys"
  /\ LET c == suspended
         name == username(c.u)
         encrypted == encryptJSON(SecretKeys(c.u), c.kek, c.iv)
     IN  CASE c.pc = "deriveKEK" ->
                /\ sessionKEK' = deriveKEK(c.pw, c.salt)
                /\ suspended' = [c EXCEPT !.pc = "putSecrets",
                                          !.kek = deriveKEK(c.pw, c.salt)]
                /\ UNCHANGED <<sessionUser, sessionTimeoutId, sessionStorage, secrets,
                               meta, ret>>
           [] c.pc = "putSecrets" ->
                /\ secrets' = [secrets EXCEPT ![secretsId(name)] =
                                 [salt |-> c.salt, iv |-> encrypted.iv,
                                  ciphertext |-> encrypted.ciphertext]]
                /\ suspended' = [c EXCEPT !.pc = "putSalt"]
                /\ UNCHANGED <<sessionUser, sessionKEK, sessionTimeoutId, sessionStorage,
                               meta, ret>>
           [] c.pc = "putSalt" ->
                /\ meta' = [meta EXCEPT ![saltId(name)] = [NoMeta EXCEPT !.salt = c.salt]]
                /\ suspended' = [c EXCEPT !.pc = "putPubkeys"]
                /\ UNCHANGED <<sessionUser, sessionKEK, sessionTimeoutId, sessionStorage,
                               secrets, ret>>
           [] c.pc = "putPubkeys" ->
                /\ meta' = [meta EXCEPT ![pubkeysId(name)] =
                              [NoMeta EXCEPT !.kyberPublicKey = kyber_public_key(c.u),
                                             !.falconPublicKey = falcon_public_key(c.u)]]
                /\ suspended' = [c EXCEPT !.pc = "exportKey", !.kek = sessionKEK]
                /\ UNCHANGED <<sessionUser, sessionKEK, sessionTimeoutId, sessionStorage,
                               secrets, ret>>
           [] c.pc = "exportKey" ->
                /\ resetSessionTimeout(
                     IF c.kek = null THEN sessionStorage
                     ELSE [sessionStorage EXCEPT !.qs_session_user = name,
                                                 !.qs_session_kek = exportKeyBase64(c.kek)])
                /\ suspended' = NoCall
                /\ ret' = Returned("login")
                /\ UNCHANGED <<sessionUser, sessionKEK, secrets, meta>>
  /\ UNCHANGED <<now, localStorage, lastActivity, serverVars>>

\* the transaction of a putRecord fails (tx.onerror): initializeSecureKeys
\* throws at that await and handleLogin shows the error
initializeSecureKeysFails ==
  /\ suspended.op = "initializeSecureKeys"
  /\ suspended.pc \in {"putSecrets", "putSalt", "putPubkeys"}
  /\ suspended' = NoCall
  /\ ret' = Thrown("login", "tx.error")
  /\ UNCHANGED <<now, localStorage, sessionUser, sessionKEK, sessionTimeoutId,
                 sessionStorage, secrets, meta, lastActivity, serverVars>>

\* restoreSessionKEK(username, password) is called and waits for getRecord
restoreSessionKEKCall(u, pw) ==
  /\ suspended = NoCall
  /\ suspended' = [NoCall EXCEPT !.op = "restoreSessionKEK", !.pc = "getRecord",
                                 !.u = u, !.pw = pw]
  /\ lastActivity' = now
  /\ ret' = NoRet
  /\ UNCHANGED <<now, localStorage, sessionUser, sessionKEK, sessionTimeoutId,
                 sessionStorage, secrets, meta, serverVars>>

\* restoreSessionKEK goes on: after getRecord it throws or sets sessionUser
\* and waits for deriveKEK; after deriveKEK it sets sessionKEK and calls
\* resetSessionTimeout
restoreSessionKEKResume ==
  /\ suspended.op = "restoreSessionKEK"
  /\ LET c == suspended
         record == meta[saltId(username(c.u))]
     IN  CASE c.pc = "getRecord" ->
                IF record = NoMeta
                THEN /\ ret' = Thrown("restoreSessionKEK",
                                      "No keystore metadata found; re-login required")
                     /\ suspended' = NoCall
                     /\ UNCHANGED <<sessionUser, sessionKEK, sessionTimeoutId,
                                    sessionStorage>>
                ELSE /\ sessionUser' = username(c.u)
                     /\ suspended' = [c EXCEPT !.pc = "deriveKEK", !.salt = record.salt]
                     /\ UNCHANGED <<sessionKEK, sessionTimeoutId, sessionStorage, ret>>
           [] c.pc = "deriveKEK" ->
                /\ sessionKEK' = deriveKEK(c.pw, c.salt)
                /\ resetSessionTimeout(sessionStorage)
                /\ suspended' = NoCall
                /\ ret' = Returned("restoreSessionKEK")
                /\ UNCHANGED sessionUser
  /\ UNCHANGED <<now, localStorage, secrets, meta, lastActivity, serverVars>>

\* getSecretKeys() is called: without a session it calls restoreSession,
\* which fails at once or waits for importKey; with a session it asks for
\* the record of sessionUser and waits for getRecord
getSecretKeysCall ==
  /\ suspended = NoCall
  /\ LET absent == sessionUser = null \/ sessionKEK = null
     IN  IF absent /\ ~restorable
         THEN /\ restoreSession(sessionUser, sessionKEK, sessionTimeoutId)
              /\ ret' = Thrown("getSecretKeys",
                               "Key session not initialized; please re-login")
              /\ UNCHANGED suspended
         ELSE /\ suspended' =
                   IF absent
                   THEN [NoCall EXCEPT !.op = "getSecretKeys", !.pc = "importKey",
                                       !.name = sessionStorage.qs_session_user,
                                       !.kek = importKeyBase64(sessionStorage.qs_session_kek)]
                   ELSE [NoCall EXCEPT !.op = "getSecretKeys", !.pc = "getRecord",
                                       !.name = sessionUser]
              /\ ret' = NoRet
              /\ UNCHANGED <<sessionUser, sessionKEK, sessionTimeoutId, sessionStorage>>
  /\ lastActivity' = now
  /\ UNCHANGED <<now, localStorage, secrets, meta, serverVars>>

\* getSecretKeys goes on: after importKey restoreSession sets the session and
\* the timer and getRecord is asked; after getRecord it throws or hands the
\* payload and the sessionKEK of that moment to decryptJSON (decrypt rejects a
\* key that is null); after the decryption it calls resetSessionTimeout and
\* returns the keys
getSecretKeysResume ==
  /\ suspended.op = "getSecretKeys"
  /\ LET c == suspended
         rec == secrets[secretsId(c.name)]
         keys == decryptJSON(c.rec, c.kek)
     IN  CASE c.pc = "importKey" ->
                /\ sessionKEK' = c.kek
                /\ sessionUser' = c.name
                /\ resetSessionTimeout(sessionStorage)
                /\ suspended' = [c EXCEPT !.pc = "getRecord", !.kek = null]
                /\ UNCHANGED ret
           [] c.pc = "getRecord" ->
                /\ IF rec = NoSecret
                   THEN /\ ret' = Thrown("getSecretKeys",
                                         "No stored secrets for current session")
                        /\ suspended' = NoCall
                   ELSE IF sessionKEK = null
                   THEN /\ ret' = Thrown("getSecretKeys", "TypeError")
                        /\ suspended' = NoCall
                   ELSE /\ suspended' = [c EXCEPT !.pc = "decrypt", !.kek = sessionKEK,
                                                  !.rec = rec]
                        /\ UNCHANGED ret
                /\ UNCHANGED <<sessionUser, sessionKEK, sessionTimeoutId, sessionStorage>>
           [] c.pc = "decrypt" ->
                /\ IF keys = NoKeys
                   THEN /\ ret' = Thrown("getSecretKeys", "OperationError")
                        /\ UNCHANGED <<sessionTimeoutId, sessionStorage>>
                   ELSE /\ ret' = [Returned("getSecretKeys") EXCEPT !.keys = keys]
                        /\ resetSessionTimeout(sessionStorage)
                /\ suspended' = NoCall
                /\ UNCHANGED <<sessionUser, sessionKEK>>
  /\ UNCHANGED <<now, localStorage, secrets, meta, lastActivity, serverVars>>

\* one browser tab with its keystore calls taken await by await; an await
\* takes less than a step of the clock
AsyncNext ==
  \/ \E u \in KeystoreUsers, salt \in Salts, iv \in JsonIvs : LoginCall(u, TRUE, salt, iv)
  \/ initializeSecureKeysResume
  \/ initializeSecureKeysFails
  \/ \E u \in KeystoreUsers, pw \in Passwords : restoreSessionKEKCall(u, pw)
  \/ restoreSessionKEKResume
  \/ localStorage.user # null /\ getSecretKeysCall
  \/ getSecretKeysResume
  \/ Reload
  \/ SessionTimeout
  \/ suspended = NoCall /\ Tick

SpecAsync == KeystoreInit /\ [][AsyncNext]_vars

(***************************************************************************)
(* Authentication (server.js io.use, authMiddleware.js verifyToken): the   *)
(* handshake of a connection, and a friend route called with the bearer    *)
(* token of the Authorization header.                                      *)
(***************************************************************************)
\* the bearer tokens of HTTP requests: those of the handshake, and one whose
\* signature does not verify
BearerTokens == Tokens \cup {[id |-> 10, state |-> "forged"]}

\* verifyToken(req, res, next): the 401 it answers, or next with req.user
verifyToken(token) ==
  IF token = NoToken
  THEN [status |-> "401", error |-> "Missing authorization header"]
  ELSE IF token.state = "expired"
  THEN [status |-> "401", error |-> "Token has expired"]
  ELSE IF ~jwtVerify(token)
  THEN [status |-> "401", error |-> "Invalid token"]
  ELSE [status |-> "next", error |-> ""]

\* router.delete('/:friend_id', verifyToken, ...): the middleware, then the
\* route with user_id = req.user.id
DeleteFriend(token, friend_id) ==
  IF verifyToken(token).status = "next"
  THEN RemoveFriend(token.id, friend_id)
  ELSE /\ out' = [NoOut EXCEPT !.op = "remove", !.resp = verifyToken(token).status,
                               !.error = verifyToken(token).error]
       /\ UNCHANGED <<keystoreVars, limiterVars, usePostgres, dbVars, http, sockets, inflight>>

AuthNext ==
  \/ \E s \in SocketIds, token \in BearerTokens \cup {NoToken},
        userId \in WireIds \cup {Missing} :
       Handshake(s, token, userId)
  \/ \E s \in SocketIds : Disconnect(s)
  \/ \E token \in BearerTokens \cup {NoToken}, friend_id \in FriendIds :
       DeleteFriend(token, friend_id)

SpecAuth == RelayInit /\ [][AuthNext]_vars

(***************************************************************************)
(* Routes with their middleware (server.js 181-185): apiLimiter at the     *)
(* mount, verifyToken, the limiter of the route if it has one, the route.  *)
(***************************************************************************)
\* the public keys a client posts to /kyber/encapsulate
PostedKeys == {kyber_public_key(u) : u \in HttpUsers} \cup {""}

\* the reply of a limiter that is over its max
TooMany(op, message) == [NoOut EXCEPT !.op = op, !.resp = "429", !.error = message]

\* the reply of verifyToken
Unauthorized(op, token) ==
  [NoOut EXCEPT !.op = op, !.resp = verifyToken(token).status,
                !.error = verifyToken(token).error]

\* POST /api/crypto/kyber/encapsulate from address ip
PostEncapsulate(ip, token, receiverPublicKey, ss) ==
  LET counted == increment(hits, "api", ip)
      key == keyGenerator(decodedRequest(ip, token))
      limited == increment(counted, "encapsulate", key)
  IN  /\ requestsFrom(Addresses) < MaxHits
      /\ IF counted["api"][ip] > apiLimiterMax
         THEN /\ hits' = counted
              /\ out' = TooMany("encapsulate", "Too many requests, please slow down")
              /\ UNCHANGED calls
         ELSE IF verifyToken(token).status # "next"
         THEN /\ hits' = counted
              /\ out' = Unauthorized("encapsulate", token)
              /\ UNCHANGED calls
         ELSE /\ hits' = limited
              /\ calls' = [calls EXCEPT !["encapsulate"][token.id] = @ + 1]
              /\ out' =
                   IF limited["encapsulate"][key] > encapsulateLimiterMax
                   THEN [TooMany("encapsulate",
                                 "Too many encapsulation requests, please try again later")
                           EXCEPT !.from = token.id]
                   ELSE IF receiverPublicKey \notin {kyber_public_key(u) : u \in Users}
                   THEN HttpReply("encapsulate", token.id, "400")
                   ELSE [HttpReply("encapsulate", token.id, "200") EXCEPT
                           !.data.bundle.kyberCiphertext =
                              kyberEncapsulate(receiverPublicKey, ss).ciphertext]
      /\ UNCHANGED <<keystoreVars, usePostgres, dbVars, http, sockets, inflight>>

\* POST /api/friends/request from address ip
PostRequest(h, ip, token, receiver_username) ==
  LET counted == increment(hits, "api", ip)
  IN  /\ requestsFrom(Addresses) < MaxHits
      /\ hits' = counted
      /\ IF counted["api"][ip] > apiLimiterMax
         THEN /\ out' = TooMany("create", "Too many requests, please slow down")
              /\ UNCHANGED <<keystoreVars, usePostgres, dbVars, http, sockets, inflight,
                             calls>>
         ELSE IF verifyToken(token).status # "next"
         THEN /\ out' = Unauthorized("create", token)
              /\ UNCHANGED <<keystoreVars, usePostgres, dbVars, http, sockets, inflight,
                             calls>>
         ELSE /\ calls' = [calls EXCEPT !["request"][token.id] = @ + 1]
              /\ postRequest(h, token.id, receiver_username)

\* a quiet hour: the window of every limiter has run out
HourPasses ==
  /\ hits # NoHits
  /\ hits' = NoHits
  /\ calls' = NoCalls
  /\ out' = NoOut
  /\ UNCHANGED <<keystoreVars, usePostgres, dbVars, http, sockets, inflight>>

\* the crypto routes under load
CryptoNext ==
  \/ \E ip \in Addresses, token \in {t \in Tokens : t.id \in HttpUsers},
        receiverPublicKey \in PostedKeys, ss \in SharedSecrets :
       PostEncapsulate(ip, token, receiverPublicKey, ss)
  \/ HourPasses

SpecCrypto == FriendsInit /\ [][CryptoNext]_vars

\* the friend request route under load, the requests coming one at a time
BurstNext ==
  \/ \E h \in HttpSlots, ip \in Addresses, token \in {t \in Tokens : t.id \in HttpUsers},
        name \in Usernames :
       /\ \A g \in HttpSlots : http[g] = HttpIdle
       /\ PostRequest(h, ip, token, name)
  \/ \E h \in HttpSlots : CreateCheckFriendship(h)
  \/ \E h \in HttpSlots : CreateCheckRequest(h)
  \/ \E h \in HttpSlots : CreateInsert(h)
  \/ HourPasses

SpecBurst == FriendsInit /\ [][BurstNext]_vars

(***************************************************************************)
(* Receiving at the client (utils/crypto.js, ChatDashboard.js): the        *)
(* receiveMessage and receiveFile handlers and the two functions that      *)
(* verify and decrypt an envelope.                                         *)
(***************************************************************************)
\* GET /api/users/:userId/keys behind verifyToken
getUserKeys(token, userIdParam) ==
  IF verifyToken(token).status # "next"
  THEN [status |-> verifyToken(token).status, falconPublicKey |-> ""]
  ELSE IF parseInt(userIdParam) = NaN \/ parseInt(userIdParam) <= 0
  THEN [status |-> "400", falconPublicKey |-> ""]
  ELSE IF parseInt(userIdParam) \notin Users
  THEN [status |-> "404", falconPublicKey |-> ""]
  ELSE [status |-> "200", falconPublicKey |-> falcon_public_key(parseInt(userIdParam))]

\* POST /api/crypto/falcon/verify behind verifyToken
falconVerify(token, message, signature, publicKey) ==
  IF verifyToken(token).status # "next"
  THEN [status |-> verifyToken(token).status, isValid |-> FALSE]
  ELSE IF message = "" \/ signature = "" \/ publicKey = ""
  THEN [status |-> "400", isValid |-> FALSE]
  ELSE [status |-> "200", isValid |-> verifyWithFalcon(message, signature, publicKey)]

\* the client's verifyWithFalcon: it posts to /api/crypto/falcon/verify with
\* no Authorization header and returns response.data.isValid; a reply that
\* is an error below 500 makes it return false
clientVerifyWithFalcon(data, signatureBase64, publicKeyBase64) ==
  LET response == falconVerify(NoToken, data, signatureBase64, publicKeyBase64)
  IN  IF response.status = "200" THEN response.isValid ELSE FALSE

\* kem.decapsulate throws on a ciphertext that is not an ML-KEM-1024
\* ciphertext: the client's kyberDecapsulate then throws its own Error
decapsulateThrows(ciphertextBase64) ==
  \A u \in Users, ss \in SharedSecrets :
    ciphertextBase64 # kyberEncapsulate(kyber_public_key(u), ss).ciphertext

\* verifyAndDecryptMessage with its steps 1 and 2 exchanged: it decapsulates
\* before it verifies the signature
verifyAndDecryptMessageError_decapsulateFirst(messageBundle, receiverKyberSecretKey, senderFalconPublicKey) ==
  IF \/ messageBundle.kyberCiphertext = "" \/ messageBundle.encryptedMessage = ""
     \/ messageBundle.iv = "" \/ messageBundle.authTag = ""
     \/ messageBundle.signature = ""
  THEN "Missing required encryption fields in message bundle"
  ELSE IF receiverKyberSecretKey = "" \/ senderFalconPublicKey = ""
  THEN "Missing decryption keys"
  ELSE IF decapsulateThrows(messageBundle.kyberCiphertext)
  THEN "Failed to decapsulate with Kyber"
  ELSE IF ~clientVerifyWithFalcon(
             buildSignaturePayload(messageBundle.encryptedMessage, messageBundle.iv,
                                   messageBundle.authTag),
             messageBundle.signature, senderFalconPublicKey)
  THEN "Signature verification failed - message may be tampered"
  ELSE IF decryptMessage(messageBundle.encryptedMessage,
                         kyberDecapsulate(messageBundle.kyberCiphertext,
                                          receiverKyberSecretKey),
                         messageBundle.iv, messageBundle.authTag) = Failure
  THEN "Failed to decrypt message - authentication failed"
  ELSE ""

\* the message of the Error verifyAndDecryptMessage throws; "" when it
\* returns the plaintext
verifyAndDecryptMessageError(messageBundle, receiverKyberSecretKey, senderFalconPublicKey) ==
  IF \/ messageBundle.kyberCiphertext = "" \/ messageBundle.encryptedMessage = ""
     \/ messageBundle.iv = "" \/ messageBundle.authTag = ""
     \/ messageBundle.signature = ""
  THEN "Missing required encryption fields in message bundle"
  ELSE IF receiverKyberSecretKey = "" \/ senderFalconPublicKey = ""
  THEN "Missing decryption keys"
  ELSE IF ~clientVerifyWithFalcon(
             buildSignaturePayload(messageBundle.encryptedMessage, messageBundle.iv,
                                   messageBundle.authTag),
             messageBundle.signature, senderFalconPublicKey)
  THEN "Signature verification failed - message may be tampered"
  ELSE IF decapsulateThrows(messageBundle.kyberCiphertext)
  THEN "Failed to decapsulate with Kyber"
  ELSE IF decryptMessage(messageBundle.encryptedMessage,
                         kyberDecapsulate(messageBundle.kyberCiphertext,
                                          receiverKyberSecretKey),
                         messageBundle.iv, messageBundle.authTag) = Failure
  THEN "Failed to decrypt message - authentication failed"
  ELSE ""

\* frontend crypto.js verifyAndDecryptMessage: the plaintext, or Failure
verifyAndDecryptMessage(messageBundle, receiverKyberSecretKey, senderFalconPublicKey) ==
  IF verifyAndDecryptMessageError(messageBundle, receiverKyberSecretKey,
                                  senderFalconPublicKey) # ""
  THEN Failure
  ELSE decryptMessage(messageBundle.encryptedMessage,
                      kyberDecapsulate(messageBundle.kyberCiphertext,
                                       receiverKyberSecretKey),
                      messageBundle.iv, messageBundle.authTag)

\* the message of the Error verifyAndDecryptFile throws; "" when it returns
\* the blob.  fileData travels in the bundle's encryptedMessage field.
verifyAndDecryptFileError(fileBundle, receiverKyberSecretKey, senderFalconPublicKey) ==
  IF ~clientVerifyWithFalcon(
        buildSignaturePayload(fileBundle.encryptedMessage, fileBundle.iv,
                              fileBundle.authTag),
        fileBundle.signature, senderFalconPublicKey)
  THEN "File signature verification failed - file may be tampered"
  ELSE IF decapsulateThrows(fileBundle.kyberCiphertext)
  THEN "Failed to decapsulate with Kyber"
  ELSE IF decryptMessage(fileBundle.encryptedMessage,
                         kyberDecapsulate(fileBundle.kyberCiphertext,
                                          receiverKyberSecretKey),
                         fileBundle.iv, fileBundle.authTag) = Failure
  THEN "Failed to decrypt message - authentication failed"
  ELSE ""

\* the events a socket can hand to the tab: an envelope one of the two
\* codecs built, whole, without its signature, or with its Kyber ciphertext
\* cut short
ReceivedEvents ==
  {[NoOut EXCEPT
      !.recv = event,
      !.data = [senderId |-> WireOf(from), receiverId |-> WireOf(to),
                bundle |->
                  LET built == Envelopes[codec, from, to, "hello", "ss1", "iv1"]
                  IN  CASE damage = "none" -> built
                        [] damage = "unsigned" -> [built EXCEPT !.signature = ""]
                        [] damage = "cut" -> [built EXCEPT !.kyberCiphertext = "kem["],
                file |-> IF event = "receiveFile"
                         THEN [FileMeta EXCEPT !.fileType = ""] ELSE NoFile]] :
     event \in {"receiveMessage", "receiveFile"}, from \in Users, to \in KeystoreUsers,
     codec \in {"client", "pqc"}, damage \in {"none", "unsigned", "cut"}}

\* the socket hands an event to the tab
SocketEvent(event) ==
  /\ out' = event
  /\ UNCHANGED <<keystoreVars, limiterVars, usePostgres, dbVars, http, sockets, inflight>>

\* a caller applies verifyAndDecryptMessage to the envelope that arrived
VerifyAndDecryptMessage(receiverKyberSecretKey, senderFalconPublicKey) ==
  /\ out.recv = "receiveMessage"
  /\ ret' = Thrown("verifyAndDecryptMessage",
                   verifyAndDecryptMessageError(out.data.bundle, receiverKyberSecretKey,
                                                senderFalconPublicKey))
  /\ UNCHANGED <<now, localStorage, sessionUser, sessionKEK, sessionTimeoutId,
                 sessionStorage, secrets, meta, lastActivity, suspended,
                 serverVars>>

\* a caller applies verifyAndDecryptFile to the envelope that arrived
VerifyAndDecryptFile(receiverKyberSecretKey, senderFalconPublicKey) ==
  /\ out.recv = "receiveFile"
  /\ ret' = Thrown("verifyAndDecryptFile",
                   verifyAndDecryptFileError(out.data.bundle, receiverKyberSecretKey,
                                             senderFalconPublicKey))
  /\ UNCHANGED <<now, localStorage, sessionUser, sessionKEK, sessionTimeoutId,
                 sessionStorage, secrets, meta, lastActivity, suspended,
                 serverVars>>

\* the receiveMessage handler from the answer of its getSecretKeys call on,
\* for a message of the selected contact: it fetches the sender's public key
\* (no key is cached before a fetch has succeeded; the request carries no
\* Authorization header), verifies and decrypts, and its catch shows one
\* fixed text
ReceiveMessage ==
  /\ out.recv = "receiveMessage"
  /\ ret.op = "getSecretKeys"
  /\ LET senderResponse == getUserKeys(NoToken, out.data.senderId)
         missing == /\ ret.error = ""
                    /\ ret.keys.kyberSecretKey = "" \/ ret.keys.falconSecretKey = ""
         err == IF ret.error # "" THEN ret.error
                ELSE IF missing THEN ""
                ELSE IF senderResponse.status # "200"
                THEN "Request failed with status code " \o senderResponse.status
                ELSE verifyAndDecryptMessageError(out.data.bundle, ret.keys.kyberSecretKey,
                                                  senderResponse.falconPublicKey)
     IN  ret' = [Thrown("receiveMessage", err) EXCEPT
                   !.shown = IF missing THEN "Cannot decrypt message: Missing keys"
                             ELSE IF err # "" THEN "Failed to decrypt message"
                             ELSE ""]
  /\ UNCHANGED <<now, localStorage, sessionUser, sessionKEK, sessionTimeoutId,
                 sessionStorage, secrets, meta, lastActivity, suspended,
                 serverVars>>

\* the receiveFile handler, likewise; its catch shows the message of the
\* Error it caught
ReceiveFile ==
  /\ out.recv = "receiveFile"
  /\ ret.op = "getSecretKeys"
  /\ LET senderResponse == getUserKeys(NoToken, out.data.senderId)
         missing == ret.error = "" /\ ret.keys.kyberSecretKey = ""
         err == IF ret.error # "" THEN ret.error
                ELSE IF missing THEN ""
                ELSE IF senderResponse.status # "200"
                THEN "Request failed with status code " \o senderResponse.status
                ELSE verifyAndDecryptFileError(out.data.bundle, ret.keys.kyberSecretKey,
                                               senderResponse.falconPublicKey)
     IN  ret' = [Thrown("receiveFile", err) EXCEPT
                   !.shown = IF missing THEN "Cannot decrypt file: Missing keys"
                             ELSE IF err # "" THEN "Failed to decrypt file: " \o err
                             ELSE ""]
  /\ UNCHANGED <<now, localStorage, sessionUser, sessionKEK, sessionTimeoutId,
                 sessionStorage, secrets, meta, lastActivity, suspended,
                 serverVars>>

ReceiveNext ==
  \/ \E u \in KeystoreUsers, salt \in Salts, iv \in JsonIvs : Login(u, TRUE, salt, iv)
  \/ \E event \in ReceivedEvents : SocketEvent(event)
  \/ out.recv # "none" /\ getSecretKeys
  \/ ReceiveMessage
  \/ ReceiveFile
  \/ \E u \in KeystoreUsers, from \in Users :
       VerifyAndDecryptMessage(kyber_secret_key(u), falcon_public_key(from))
  \/ \E u \in KeystoreUsers, from \in Users :
       VerifyAndDecryptFile(kyber_secret_key(u), falcon_public_key(from))

SpecReceive == KeystoreInit /\ [][ReceiveNext]_vars

\* backend pqc.js verifyAndDecryptMessage: the message of the Error it
\* throws, "" when it returns the plaintext.  It verifies over
\* encryptedMessage + iv + authTag with the server's own verifyWithFalcon;
\* its kyberDecapsulate rethrows the error of kem.decapsulate.
pqcVerifyAndDecryptMessageError(messageBundle, receiverKyberSecretKey, senderFalconPublicKey) ==
  IF ~verifyWithFalcon(concatPayload(messageBundle.encryptedMessage, messageBundle.iv,
                                     messageBundle.authTag),
                       messageBundle.signature, senderFalconPublicKey)
  THEN "Signature verification failed - message may be tampered"
  ELSE IF decapsulateThrows(messageBundle.kyberCiphertext)
  THEN "kem.decapsulate"
  ELSE IF decryptMessage(messageBundle.encryptedMessage,
                         kyberDecapsulate(messageBundle.kyberCiphertext,
                                          receiverKyberSecretKey),
                         messageBundle.iv, messageBundle.authTag) = Failure
  THEN "Failed to decrypt message - authentication failed"
  ELSE ""

\* a caller applies the backend's verifyAndDecryptMessage to the envelope
PqcVerifyAndDecryptMessage(receiverKyberSecretKey, senderFalconPublicKey) ==
  /\ out.recv = "receiveMessage"
  /\ ret' = Thrown("pqc.verifyAndDecryptMessage",
                   pqcVerifyAndDecryptMessageError(out.data.bundle, receiverKyberSecretKey,
                                                   senderFalconPublicKey))
  /\ UNCHANGED <<now, localStorage, sessionUser, sessionKEK, sessionTimeoutId,
                 sessionStorage, secrets, meta, lastActivity, suspended,
                 serverVars>>

\* the receive path with both implementations of verifyAndDecryptMessage
VerifyNext ==
  \/ ReceiveNext
  \/ \E u \in KeystoreUsers, from \in Users :
       PqcVerifyAndDecryptMessage(kyber_secret_key(u), falcon_public_key(from))

SpecVerify == KeystoreInit /\ [][VerifyNext]_vars

(***************************************************************************)
(* Properties of the relay (SpecRelay).                                    *)
(***************************************************************************)
\* C1: whenever the relay emits receiveMessage, the friendship row of the
\* message's sender and receiver is in the friendships table at that moment,
\* also when a removal ran between the handler's lookup and its emit
C1_MessageEmittedBetweenFriends ==
  out.recv = "receiveMessage" => out.friendRow

\* C2: the relay emits receiveFile from one user to another only while the
\* friendship row of the two is in the friendships table; a file between
\* users who are not friends is answered with fileError and not emitted
C2_FileEmittedBetweenFriends ==
  (out.recv = "receiveFile" /\ ToNumber(out.data.senderId) # ToNumber(out.data.receiverId))
    => out.friendRow

\* C3: the signature of every delivered envelope (message or file) verifies
\* under the stored Falcon key of its sender over the canonical payload
\* {"c":..,"i":..,"t":..} rebuilt from the envelope
C3_DeliveredSignatureIsCanonical ==
  out.recv # "none" =>
    \E u \in selectUserById(out.data.senderId) :
      verifyWithFalcon(buildSignaturePayload(out.data.bundle.encryptedMessage,
                                             out.data.bundle.iv,
                                             out.data.bundle.authTag),
                       out.data.bundle.signature, falcon_public_key(u))

\* C4: when sender and receiver are friends, the receiver is connected and
\* the envelope was built by the web client's encryptAndSignMessage under
\* the sender's own Falcon key, the sendMessage handler ends by emitting
\* receiveMessage to the receiver and messageSent to the sender, and the
\* receiver's verifyAndDecryptMessage returns the plaintext
C4_HappyPathDelivers ==
  [][\A t \in DOMAIN inflight, s \in Users, r \in Users, p \in Plaintexts,
        ss \in SharedSecrets, iv \in Ivs :
       ( /\ inflight[t].kind = "sendMessage" /\ inflight[t].pc = "verify"
         /\ inflight' = retire(t, out'.recv # "none")
         /\ inflight[t].userId = WireOf(s)
         /\ inflight[t].senderId = WireOf(s)
         /\ inflight[t].receiverId = WireOf(r)
         /\ inflight[t].bundle =
              encryptAndSignMessage(p, kyber_public_key(r), falcon_secret_key(s), ss, iv)
         /\ selectFriendship(MathMin(s, r), MathMax(s, r)) # {}
         /\ \E c \in SocketIds : sockets[c].connected /\ sockets[c].userId = WireOf(r) )
       => /\ out'.recv = "receiveMessage"
          /\ out'.resp = "messageSent"
          /\ verifyAndDecryptMessage(out'.data.bundle, kyber_secret_key(r),
                                     falcon_public_key(s)) = p
    ]_vars

\* C5: every message or file delivered from a connection whose user id is
\* the id of user u carries a senderId equal to u; a sendMessage naming any
\* other sender is never emitted to a receiver
C5_DeliveredSenderIsConnectionUser ==
  \A u \in Users :
    (out.recv # "none" /\ out.userId = WireOf(u)) => ToNumber(out.data.senderId) = u

\* C6: every accepted connection carries a user id equal to the subject of
\* a token that verified, so a connection opened with the token of one user
\* is never tagged with, or resolved by the database to, another user
C6_ConnectionTaggedWithTokenSubject ==
  \A c \in SocketIds :
    sockets[c].connected =>
      /\ sockets[c].tokenId \in Users
      /\ ToNumber(sockets[c].userId) = sockets[c].tokenId
      /\ selectUserById(sockets[c].userId) \subseteq {sockets[c].tokenId}

(***************************************************************************)
(* Properties of the friend routes (SpecFriends).                          *)
(***************************************************************************)
\* C7: the friendship row inserted by accepting a request never exists
\* while that request is still pending, and at the step that turns a
\* request accepted there is exactly one friendship row for its pair
C7_AcceptIsAtomic ==
  [][\A k \in RequestKeys :
       /\ friend_requests'[k] = "pending" =>
            \A row \in BagToSet(friendships') : row.via # k
       /\ (friend_requests[k] # "accepted" /\ friend_requests'[k] = "accepted") =>
            \E row \in BagToSet(friendships') :
              /\ {row.user_id_1, row.user_id_2} = {k[1], k[2]}
              /\ friendships'[row] = 1
              /\ \A other \in BagToSet(friendships') :
                   {other.user_id_1, other.user_id_2} = {k[1], k[2]} => other = row
    ]_vars

\* C8: a request's status changes only while it is pending: once accepted
\* or rejected it keeps that status in every later step
C8_RequestStatusMonotonic ==
  [][\A k \in RequestKeys :
       friend_requests[k] \in {"accepted", "rejected"} =>
         friend_requests'[k] = friend_requests[k]
    ]_vars

\* C9: the friendships table holds at most one row per unordered pair of
\* users, every row is stored as (min, max) of its pair, and no row pairs a
\* user with itself
C9_FriendshipRowsCanonical ==
  \A row \in BagToSet(friendships) :
    /\ friendships[row] = 1
    /\ row.user_id_1 # row.user_id_2
    /\ row.user_id_1 = MathMin(row.user_id_1, row.user_id_2)
    /\ row.user_id_2 = MathMax(row.user_id_1, row.user_id_2)
    /\ \A other \in BagToSet(friendships) :
         {other.user_id_1, other.user_id_2} = {row.user_id_1, row.user_id_2}
           => other = row

\* C9's case: Bob's request to Alice was accepted and its row is stored as
\* (10, 11), while an accept of Alice's crossing request to Bob is about to
\* insert a row for the same pair
C9_SecondAcceptMeetsStoredRow ==
  /\ FriendshipRow(10, 11, <<11, 10>>) \in BagToSet(friendships)
  /\ \E h \in HttpSlots :
       /\ http[h].kind = "accept" /\ http[h].pc = "createFriendship"
       /\ http[h].req = <<10, 11>>

C11_AckOnlyWithDelivery ==
  out.resp \in {"messageSent", "fileDelivered"} =>
    /\ out.recv = (IF out.resp = "messageSent" THEN "receiveMessage" ELSE "receiveFile")
    /\ out.room # {}
    /\ out.room = adapterRoom(roomName(out.data.receiverId))
    /\ \A c \in out.room : sockets[c].connected

\* C11's case: Alice's file to Bob has just been acknowledged with
\* fileDelivered, Bob's connection being the one member of his room
C11_FileAcknowledged ==
  /\ out.op = "sendFile" /\ out.resp = "fileDelivered"
  /\ out.userId = WireOf(10) /\ out.data.receiverId = WireOf(11)
  /\ \E c \in SocketIds : out.room = {c} /\ sockets[c].tokenId = 11

(***************************************************************************)
(* Order of delivery (SpecPipeline).                                       *)
(***************************************************************************)
\* C12: the messages one connection sends to one receiver are emitted to the
\* receiver in the order in which the relay received them, also when several
\* of them are suspended in the handler at one time: no message is emitted
\* after a message that the same connection sent later to the same receiver
\* (in SpecPipeline a user has one connection, so the connection's user
\* stands for the connection)
C12_EmittedInArrivalOrder ==
  (out.op = "sendMessage" /\ out.recv = "receiveMessage") => ~out.late

(***************************************************************************)
(* Messaging after a removal (SpecRelay).                                  *)
(***************************************************************************)
\* C13: once the friendship of a and b has been removed (no row of the pair
\* is in the table), a sendMessage between a and b whose friendship lookup
\* runs is refused with the not-friend error, emits nothing to any room and
\* its handler ends there, so it delivers nothing later either; this lasts
\* for as long as no new row of the pair is in the table
C13_RemovedFriendsCannotMessage ==
  [][\A t \in DOMAIN inflight, a \in Users, b \in Users :
       ( /\ inflight[t].kind = "sendMessage" /\ inflight[t].pc = "checkFriend"
         /\ inflight[t].senderId \in WireIds /\ inflight[t].receiverId \in WireIds
         /\ ToNumber(inflight[t].senderId) = a /\ ToNumber(inflight[t].receiverId) = b
         /\ \A row \in BagToSet(friendships) : {row.user_id_1, row.user_id_2} # {a, b}
         /\ \/ inflight' = retire(t, FALSE)
            \/ inflight' = [inflight EXCEPT ![t].pc = "senderKey"] )
       => /\ out'.op = "sendMessage" /\ out'.resp = "messageError"
          /\ out'.error = "You can only message friends"
          /\ out'.recv = "none" /\ out'.room = {} /\ out'.data = NoData
          /\ inflight' = retire(t, FALSE)
    ]_vars

\* C13's case: Alice, the one connected user, has just been refused with the
\* not-friend error; her friendship with Bob was removed (the request row
\* still says accepted) while the one with Mallory is still there
C13_RefusedAfterRemoval ==
  /\ out.op = "sendMessage" /\ out.error = "You can only message friends"
  /\ friend_requests[<<10, 11>>] = "accepted"
  /\ BagToSet(friendships) = {acceptedRow(1, 10, <<1, 10>>)}
  /\ sockets["s1"].connected /\ sockets["s1"].tokenId = 10
  /\ sockets["s1"].userId = WireOf(10) /\ ~sockets["s2"].connected

(***************************************************************************)
(* Asking again (SpecFriendsSerial).                                       *)
(***************************************************************************)
\* C14: a rejection is no block: when the only request rows of the pair
\* {s, r} are rejected ones and the two are not friends, no step of a create
\* handler for the pair, in either direction, answers with an error, and its
\* last step answers 201 and leaves the request it asked for pending
C14_RejectionIsNoBlock ==
  [][\A h \in HttpSlots, s \in Users, r \in Users :
       ( /\ http[h].kind = "create" /\ http[h].req = <<s, r>>
         /\ http'[h] # http[h]
         /\ "rejected" \in {friend_requests[<<s, r>>], friend_requests[<<r, s>>]}
         /\ {friend_requests[<<s, r>>], friend_requests[<<r, s>>]} \subseteq {"none", "rejected"}
         /\ \A row \in BagToSet(friendships) : {row.user_id_1, row.user_id_2} # {s, r} )
       => /\ out'.resp \notin {"400", "404", "500"}
          /\ http'[h] = HttpIdle =>
               out'.resp = "201" /\ friend_requests'[<<s, r>>] = "pending"
    ]_vars

\* C15: after the friendship that came from accepting a request of the pair
\* {s, r} has been removed (the request row says accepted, the friendship
\* row is gone), no step of a create handler for the pair, in either
\* direction, answers with an error, and its last step answers 201 and
\* leaves the request it asked for pending
C15_RequestAfterRemoval ==
  [][\A h \in HttpSlots, s \in Users, r \in Users :
       ( /\ http[h].kind = "create" /\ http[h].req = <<s, r>>
         /\ http'[h] # http[h]
         /\ "accepted" \in {friend_requests[<<s, r>>], friend_requests[<<r, s>>]}
         /\ {friend_requests[<<s, r>>], friend_requests[<<r, s>>]} \subseteq {"none", "accepted"}
         /\ \A row \in BagToSet(friendships) : {row.user_id_1, row.user_id_2} # {s, r} )
       => /\ out'.resp \notin {"400", "404", "500"}
          /\ http'[h] = HttpIdle =>
               out'.resp = "201" /\ friend_requests'[<<s, r>>] = "pending"
    ]_vars

(***************************************************************************)
(* Who may answer a request (SpecFriends).                                 *)
(***************************************************************************)
\* C16: accept and reject take effect only for the request's receiver: a
\* call by any other user, the request's sender included, is answered with
\* an error, starts no handler and leaves the request rows and the
\* friendships table as they were; and every handler of accept or reject
\* that is in flight runs for the receiver of its request
C16_OnlyReceiverAnswers ==
  [][/\ \A h \in HttpSlots, u \in HttpUsers, k \in HttpUsers \X HttpUsers :
          (u # k[2] /\ (AcceptRequest(h, u, k) \/ RejectRequest(h, u, k)))
          => /\ out'.resp \in {"400", "404", "500"}
             /\ friend_requests' = friend_requests /\ friendships' = friendships
             /\ http' = http
     /\ \A h \in HttpSlots :
          http'[h].kind \in {"accept", "reject"} => http'[h].user_id = http'[h].req[2]
    ]_vars

\* C16's case: Alice has asked Bob, then called accept on her own request
\* and was answered 404; the request is pending as before, nobody is friends
C16_SenderCannotAccept ==
  /\ out.op = "accept" /\ out.resp = "404" /\ out.from = 10 /\ out.req = <<10, 11>>
  /\ friend_requests[<<10, 11>>] = "pending"
  /\ friendships = EmptyBag

(***************************************************************************)
(* Properties of the key session (SpecKeystore).                           *)
(***************************************************************************)
\* C17: whenever more than 30 minutes have passed since the last activity
\* (the last initialize, unlock or getSecretKeys call), the module holds no
\* KEK
C17_KekAbsentAfterInactivity ==
  (now - lastActivity > SESSION_TIMEOUT_MS) => sessionKEK = null

\* C18: unlock with a password other than the one the keystore was written
\* under fails: called on a locked session it throws, leaves the session
\* locked (no KEK, no user) and leaves every keystore record as it was
C18_WrongPasswordStaysLocked ==
  [][\A u \in KeystoreUsers, pw \in Passwords :
       ( /\ pw # password(u)
         /\ sessionKEK = null /\ sessionUser = null
         /\ restoreSessionKEK(u, pw) )
       => /\ ret'.error # ""
          /\ sessionKEK' = null /\ sessionUser' = null
          /\ secrets' = secrets /\ meta' = meta
    ]_vars

C20_RestoreOnlyForCurrentUser ==
  [][( /\ getSecretKeys
       /\ sessionUser = null \/ sessionKEK = null
       /\ ~( /\ sessionStorage.qs_session_user # null
             /\ sessionStorage.qs_session_kek # null
             /\ sessionStorage.qs_session_timestamp # << >>
             /\ now - parseInt(sessionStorage.qs_session_timestamp) <= SESSION_TIMEOUT_MS
             /\ sessionStorage.qs_session_user = localStorage.user ) )
     => /\ ret'.error = "Key session not initialized; please re-login"
        /\ sessionKEK' = null
    ]_vars

\* C21: every getSecretKeys call made on an unlocked session is activity: it
\* rewrites the activity timestamp and restarts the 30-minute timer from the
\* minute of the call, whether the record read and the decryption that
\* follow succeed or not
C21_EveryCallExtendsDeadline ==
  [][(getSecretKeys /\ sessionUser # null /\ sessionKEK # null)
     => /\ sessionTimeoutId' = now + SESSION_TIMEOUT_MS
        /\ sessionStorage'.qs_session_timestamp = NumberToString(now)
    ]_vars

\* C22: whenever the keystore is unlocked (the module holds a user and a KEK
\* that opens the user's record), the session mirror holds that username,
\* that KEK and a timestamp, so that a page reload within 30 minutes finds
\* a session to restore
C22_UnlockedSessionIsMirrored ==
  ( /\ sessionUser # null /\ sessionKEK # null
    /\ decryptJSON(secrets[secretsId(sessionUser)], sessionKEK) # NoKeys )
  => /\ sessionStorage.qs_session_user = sessionUser
     /\ sessionStorage.qs_session_kek = exportKeyBase64(sessionKEK)
     /\ sessionStorage.qs_session_timestamp # << >>

\* C23: no persisted record holds a secret key in plaintext: not a record of
\* the keystore's two object stores, not an item of the session mirror or of
\* localStorage, and not a column of a row of the server's users table.
C23_NoPlaintextSecretPersisted ==
  LET plain == {kyber_secret_key(u) : u \in Users}
                 \cup {falcon_secret_key(u) : u \in Users}
  IN  /\ \A id \in SecretIds :
           /\ secrets[id].salt \notin plain
           /\ secrets[id].iv \notin plain
           /\ secrets[id].ciphertext \notin plain
      /\ \A id \in MetaIds :
           /\ meta[id].salt \notin plain
           /\ meta[id].kyberPublicKey \notin plain
           /\ meta[id].falconPublicKey \notin plain
      /\ sessionStorage.qs_session_user \notin plain
      /\ sessionStorage.qs_session_kek \notin plain
      /\ localStorage.user \notin plain
      /\ \A u \in Users :
           /\ users[u].username \notin plain
           /\ users[u].kyber_public_key \notin plain
           /\ users[u].falcon_public_key \notin plain
           /\ users[u].kyber_secret_key \notin plain
           /\ users[u].falcon_secret_key \notin plain
           /\ users[u].password_hash \notin plain

\* C24: the room of user u holds exactly the live connections whose token
\* was issued for u (all of them when there are several, none that has
\* disconnected), and an envelope delivered to u goes to every one of them.
C24_RoomIsLiveConnectionsOfUser ==
  \A u \in Users :
    /\ adapterRoom(roomName(WireOf(u)))
         = {s \in SocketIds : sockets[s].connected /\ sockets[s].tokenId = u}
    /\ (out.recv # "none" /\ out.data.receiverId = WireOf(u))
         => out.room = {s \in SocketIds : sockets[s].connected /\ sockets[s].tokenId = u}

\* C26: a rejected authentication looks the same whatever caused it: two
\* handshakes rejected one after the other carry the same error, and so do
\* two HTTP requests rejected one after the other.
C26_RejectionHidesSubReason ==
  [][/\ (out.resp = "connect_error" /\ out'.resp = "connect_error")
          => out'.error = out.error
     /\ (out.resp = "401" /\ out'.resp = "401") => out'.error = out.error
    ]_vars

\* C25: an envelope that fails on the receiving side fails in one generic
\* way.  To the caller: two failed calls of the verify-and-decrypt functions,
\* one after the other, throw the same error, whether for a message or for
\* a file and whichever step failed.  To the user: the text a handler that
\* has the secret keys shows for a failure is its fixed text, with nothing of
\* the error it caught.
C25_ReceiveFailureIsGeneric ==
  [][/\ ( /\ ret.op \in {"verifyAndDecryptMessage", "verifyAndDecryptFile"}
          /\ ret'.op \in {"verifyAndDecryptMessage", "verifyAndDecryptFile"}
          /\ ret.error # "" /\ ret'.error # "" )
          => ret'.error = ret.error
     /\ (ReceiveMessage /\ ret.error = "" /\ ret'.error # "")
          => ret'.shown = "Failed to decrypt message"
     /\ (ReceiveFile /\ ret.error = "" /\ ret'.error # "")
          => ret'.shown = "Failed to decrypt file"
    ]_vars

\* C27: the counter a rate limiter charges is the authenticated user's own:
\* a user whom the encapsulation limiter turns away has made more requests
\* in the window than the limiter allows, whoever else calls from the same
\* address.
C27_LimitedByOwnRequests ==
  \A u \in Users :
    ( /\ out.op = "encapsulate" /\ out.resp = "429" /\ out.from = u
      /\ out.error = "Too many encapsulation requests, please try again later" )
    => calls["encapsulate"][u] > encapsulateLimiterMax

\* C28: the eleventh POST /request of one user within an hour is rejected and
\* adds no request row: whichever step answers a call that is the user's
\* eleventh or later of the hour, the answer is not 201 and the table of
\* requests stays as it was.
C28_EleventhRequestRejected ==
  [][ /\ \A h \in HttpSlots, ip \in Addresses, token \in Tokens, name \in Usernames :
           ( /\ verifyToken(token).status = "next"
             /\ calls["request"][token.id] >= 10
             /\ PostRequest(h, ip, token, name) )
           => /\ out'.resp # "201"
              /\ friend_requests' = friend_requests
      /\ \A h \in HttpSlots :
           ( /\ http[h].kind = "create"
             /\ calls["request"][http[h].req[1]] > 10
             /\ CreateInsert(h) )
           => /\ out'.resp # "201"
              /\ friend_requests' = friend_requests
    ]_vars

\* C29: every create(s, r) that succeeds over HTTP makes the relay emit the
\* friend request event (friend_request_received; the client listens for
\* friendRequestReceived) to the room of r: the step that answers 201 sends
\* that event to the sockets of room(r).
C29_CreateNotifiesReceiver ==
  [][\A h \in HttpSlots :
       ( /\ http[h].kind = "create"
         /\ CreateInsert(h)
         /\ out'.resp = "201" )
       => /\ out'.recv \in {"friend_request_received", "friendRequestReceived"}
          /\ out'.room = adapterRoom(roomName(WireOf(http[h].req[2])))
    ]_vars

\* C30: at no time are there two pending requests between the same two users,
\* one in each direction, and no step creates a pending request for a pair
\* that has a friendship row, also when the handlers of create(s, r) and
\* create(r, s) interleave.
C30_NoCrossingPendingRequests ==
  [][ /\ \A s \in Users : \A r \in Users \ {s} :
           ~ ( /\ friend_requests'[<<s, r>>] = "pending"
               /\ friend_requests'[<<r, s>>] = "pending" )
      /\ \A s \in Users, r \in Users :
           ( /\ friend_requests[<<s, r>>] # "pending"
             /\ friend_requests'[<<s, r>>] = "pending" )
           => \A row \in BagToSet(friendships) :
                {row.user_id_1, row.user_id_2} # {s, r}
    ]_vars

\* C31: expiry clears the KEK, the session username, the three mirror entries
\* and the timer together, and while the KEK stays absent after that the
\* mirror stays empty and no timer is pending, also when a getSecretKeys call
\* that waited for its record or its decryption goes on after the timer fired.
C31_ExpiryClearsTogether ==
  [][ /\ SessionTimeout =>
           /\ sessionKEK' = null /\ sessionUser' = null
           /\ sessionStorage' = NoSession /\ sessionTimeoutId' = NoTimer
      /\ ( /\ sessionKEK = null /\ sessionUser = null
           /\ sessionStorage = NoSession /\ sessionTimeoutId = NoTimer
           /\ sessionKEK' = null )
         => /\ sessionStorage' = NoSession
            /\ sessionTimeoutId' = NoTimer
    ]_vars

C33_FirstFailingCheckAnswers ==
  [][ /\ ( /\ out'.op = "sendMessage"
           /\ inflight' = inflight )
         => \A s \in {c \in SocketIds : sockets[c].connected},
               senderId \in WireIds \cup {Missing} :
               LET mismatch == \/ parseInt(senderId) = NaN
                               \/ parseInt(sockets[s].userId) = NaN
                               \/ parseInt(senderId) # parseInt(sockets[s].userId)
               IN  \A receiverId \in WireIds \cup {Missing}, codec \in Codecs \ {"replay"},
                      plaintext \in Plaintexts, ss \in SharedSecrets, iv \in Ivs :
                      ( out'.error #
                          ( IF mismatch THEN "Unauthorized: Sender ID mismatch"
                            ELSE IF codec = "incomplete"
                            THEN "Encryption is mandatory. All messages must be encrypted with post-quantum cryptography."
                            ELSE "Missing receiver ID" ) )
                      => ~SendMessage(s, senderId, receiverId, codec, plaintext, ss, iv)
      /\ \A t \in InflightSlots :
           inflight'[t].kind = "sendMessage"
           => /\ parseInt(inflight'[t].senderId) = parseInt(inflight'[t].userId)
              /\ parseInt(inflight'[t].senderId) # NaN
              /\ inflight'[t].bundle.signature # ""
              /\ inflight'[t].receiverId # Missing
      /\ \A t \in InflightSlots :
           MessageCheckFriend(t)
           => IF friendshipOf(inflight[t].senderId, inflight[t].receiverId) = {}
              THEN out'.error = "You can only message friends"
              ELSE out'.resp = "none" /\ inflight'[t].pc = "senderKey"
      /\ \A t \in InflightSlots :
           MessageSenderKey(t)
           => \/ out'.error = "Failed to verify sender"
              \/ out'.resp = "none" /\ inflight'[t].pc = "verify"
      /\ \A t \in InflightSlots :
           MessageVerifyDeliver(t)
           => IF ~verifyWithFalcon(dataToVerify(inflight[t].bundle),
                                   inflight[t].bundle.signature, inflight[t].key)
              THEN out'.error = "Invalid message signature - message may be tampered"
              ELSE IF adapterRoom(roomName(inflight[t].receiverId)) = {}
              THEN out'.error = "Recipient is offline. Messages are only delivered in real-time for security."
              ELSE out'.resp = "messageSent"
      /\ \A t \in InflightSlots :
           /\ inflight'[t].pc = "senderKey" => inflight[t].pc \in {"checkFriend", "senderKey"}
           /\ inflight'[t].pc = "verify" => inflight[t].pc \in {"senderKey", "verify"}
    ]_vars

\* C33's case: the handler of a complete message of Alice's connection to
\* Bob, who is no friend of hers any more, waits for the friendship lookup;
\* its signature is one the relay's check will not accept
C33_NonFriendBadSignature ==
  \E t \in InflightSlots :
    /\ inflight[t].kind = "sendMessage" /\ inflight[t].pc = "checkFriend"
    /\ inflight[t].userId = WireOf(10) /\ inflight[t].receiverId = WireOf(11)
    /\ friendshipOf(inflight[t].senderId, inflight[t].receiverId) = {}
    /\ ~verifyWithFalcon(dataToVerify(inflight[t].bundle), inflight[t].bundle.signature,
                         falcon_public_key(10))

\* C34: when the INSERT of accept violates the uniqueness of the friendship
\* pair, the call is answered 500 and ends there, and it has changed neither
\* the status of any request nor the table of friendships: the step of the
\* failed INSERT leaves both as they are, and so did the step before it, the
\* lookup of the request.  This holds when two accept calls for requests of
\* the same pair are in flight together.
C34_FailedAcceptChangesNothing ==
  [][ /\ \A h \in HttpSlots :
           ( /\ http[h].kind = "accept" /\ http[h].pc = "createFriendship"
             /\ selectFriendship(MathMin(http[h].req[1], http[h].user_id),
                                 MathMax(http[h].req[1], http[h].user_id)) # {}
             /\ AcceptCreateFriendship(h) )
           => /\ friendships' = friendships
              /\ friend_requests' = friend_requests
              /\ http'[h] = HttpIdle
              /\ out'.op = "accept" /\ out'.resp = "500"
      /\ \A h \in HttpSlots :
           (http[h] = HttpIdle /\ http'[h].kind = "accept")
           => friendships' = friendships /\ friend_requests' = friend_requests
    ]_vars

\* C34's case: Bob's accept of Alice's request has just failed with 500 on
\* the INSERT, the friendship of the pair having been created through the
\* request in the other direction; Alice's request is pending as before
C34_SecondAcceptFailed ==
  /\ out.op = "accept" /\ out.resp = "500" /\ out.req = <<10, 11>>
  /\ friend_requests[<<10, 11>>] = "pending"
  /\ \E row \in BagToSet(friendships) :
       row.user_id_1 = 10 /\ row.user_id_2 = 11 /\ row.via = <<11, 10>>
  /\ \A row \in BagToSet(friendships) : row.via # <<10, 11>>

\* C35: whenever sessionUser and sessionKEK are both set and the record
\* secrets_{sessionUser} exists, that KEK decrypts that record; this is to
\* hold at every await of initializeSecureKeys and restoreSessionKEK and
\* after an unlock with any password.
C35_SessionKekFitsSessionUser ==
  (sessionUser # null /\ sessionKEK # null
     /\ secrets[secretsId(sessionUser)] # NoSecret)
  => decryptJSON(secrets[secretsId(sessionUser)], sessionKEK) # NoKeys

\* C36: for every user that has both records, the salt of the meta record
\* salt_{username} equals the salt stored in secrets_{username}, whenever no
\* keystore call is under way: also after an initializeSecureKeys that failed
\* or was cut off between its record writes, and after it ran again.
C36_SaltRecordsAgree ==
  suspended = NoCall
  => \A u \in KeystoreUsers :
       LET name == username(u)
       IN  (meta[saltId(name)] # NoMeta /\ secrets[secretsId(name)] # NoSecret)
           => meta[saltId(name)].salt = secrets[secretsId(name)].salt

C38_LogoutClearsKeySession ==
  [][ /\ Logout => /\ sessionKEK' = null /\ sessionUser' = null
                   /\ sessionStorage' = NoSession
      /\ (localStorage.user # null /\ ret'.op = "getSecretKeys" /\ ret'.error = "")
         => \E u \in KeystoreUsers :
              localStorage.user = username(u) /\ ret'.keys = SecretKeys(u)
    ]_vars

\* C39: the payload the relay emits equals the payload of the event it
\* relays, field for field: receiveMessage carries the sender id, receiver id
\* and envelope of the sendMessage event, receiveFile carries the receiver id
\* and envelope of the sendFile event and its fileName, fileSize and fileType.
C39_PayloadForwardedUnchanged ==
  [][ \A t \in InflightSlots :
        ( /\ inflight[t].pc = "verify" /\ out'.recv # "none"
          /\ MessageVerifyDeliver(t) \/ FileVerifyDeliver(t) )
        => /\ out'.data.senderId = inflight[t].senderId
           /\ out'.data.receiverId = inflight[t].receiverId
           /\ out'.data.bundle = inflight[t].bundle
           /\ out'.data.file = IF inflight[t].kind = "sendFile" THEN FileMeta ELSE NoFile
    ]_vars

====
